---- MODULE Spec2Model ----
(***************************************************************************)
(* Character-card codec and card manager (fanye0220/5555).                 *)
(*                                                                         *)
(* Eight specifications share the state:                                   *)
(*   - Spec: the card normalization layer (buildCharacter /                *)
(*     buildExportData of services/cardImportService) with the editing     *)
(*     surface that mutates records (CharacterForm, CharacterList, App);   *)
(*   - SpecTrip: export and re-import of the files the exports write;      *)
(*   - SpecPng: the PNG chunk scan of parseCharacterCard;                  *)
(*   - SpecEncode: createTavernPng on a rasterized avatar, and             *)
(*     parseCharacterCard on the file it writes;                           *)
(*   - SpecJson: parseCharacterJson / buildCharacter on a picked .json     *)
(*     file, from the parsed object on;                                    *)
(*   - SpecJsonText: parseCharacterJson from the text of the file on;      *)
(*   - SpecQr: parseQrFile on the text of a quick-reply file picked in the *)
(*     form;                                                               *)
(*   - SpecBatch: handleFileChange over a batch of picked files.           *)
(*                                                                         *)
(* JSON values are tagged records [t, v]; objects are functions from key   *)
(* strings to values, arrays are sequences, strings are TLA+ strings.      *)
(***************************************************************************)
EXTENDS Integers, Sequences, FiniteSets, TLC

(***************************************************************************)
(* JavaScript / JSON values                                                *)
(***************************************************************************)
Undef == [t |-> "undef", v |-> <<>>]
Null == [t |-> "null", v |-> <<>>]
Str(s) == [t |-> "str", v |-> s]
Num(n) == [t |-> "num", v |-> n]
Bool(b) == [t |-> "bool", v |-> b]
Arr(a) == [t |-> "arr", v |-> a]
Obj(f) == [t |-> "obj", v |-> f]
EmptyObj == Obj(<<>>)
EmptyArr == Arr(<<>>)

\* JavaScript truthiness, as used by || and by if (...)
Truthy(x) ==
  CASE x.t = "undef" -> FALSE
    [] x.t = "null" -> FALSE
    [] x.t = "str" -> x.v # ""
    [] x.t = "num" -> x.v # 0
    [] x.t = "bool" -> x.v
    [] x.t = "arr" -> TRUE
    [] x.t = "obj" -> TRUE

\* faulty variant of || : only null and undefined give way (a ?? b)
OrNullish(a, b) == IF a.t \in {"undef", "null"} THEN b ELSE a

\* a || b
Or(a, b) == IF Truthy(a) THEN a ELSE b

\* Property read x.k : undefined for a missing key and for a non-object
Get(x, k) == IF x.t = "obj" /\ k \in DOMAIN x.v THEN x.v[k] ELSE Undef

Has(x, k) == x.t = "obj" /\ k \in DOMAIN x.v

\* { ...x } : own enumerable properties of an object; none for a number,
\* undefined or null
Spread(x) ==
  CASE x.t = "obj" -> x.v
    [] x.t \in {"undef", "null", "num", "bool"} -> <<>>

\* JSON.parse(JSON.stringify(x)) : keys holding undefined are dropped from
\* objects, undefined array elements become null
RECURSIVE JsonClone(_)
JsonClone(x) ==
  CASE x.t = "obj" ->
         Obj([k \in {j \in DOMAIN x.v : x.v[j].t # "undef"} |-> JsonClone(x.v[k])])
    [] x.t = "arr" ->
         Arr([i \in DOMAIN x.v |->
                IF x.v[i].t = "undef" THEN Null ELSE JsonClone(x.v[i])])
    [] OTHER -> x

(***************************************************************************)
(* String helpers (String.prototype.trim / split / Array.prototype.join)   *)
(***************************************************************************)
IsSpace(c) == c \in {" ", "\t", "\n", "\r"}

CharAt(s, i) == SubSeq(s, i, i)

UpperChars == "ABCDEFGHIJKLMNOPQRSTUVWXYZ"
LowerChars == "abcdefghijklmnopqrstuvwxyz"
DigitChars == "0123456789"

InString(c, str) == \E i \in 1..Len(str) : CharAt(str, i) = c

ToLowerChar(c) ==
  IF InString(c, UpperChars)
  THEN CharAt(LowerChars, CHOOSE i \in 1..Len(UpperChars) : CharAt(UpperChars, i) = c)
  ELSE c

RECURSIVE TrimLeft(_)
TrimLeft(s) ==
  IF Len(s) > 0 /\ IsSpace(CharAt(s, 1)) THEN TrimLeft(SubSeq(s, 2, Len(s))) ELSE s

RECURSIVE TrimRight(_)
TrimRight(s) ==
  IF Len(s) > 0 /\ IsSpace(CharAt(s, Len(s)))
  THEN TrimRight(SubSeq(s, 1, Len(s) - 1)) ELSE s

Trim(s) == TrimRight(TrimLeft(s))

StartsWith(s, p) == Len(s) >= Len(p) /\ SubSeq(s, 1, Len(p)) = p

\* s.split(",") : the pieces between commas, as a sequence of strings
RECURSIVE SplitComma(_, _)
SplitComma(s, acc) ==
  IF Len(s) = 0 THEN <<acc>>
  ELSE IF CharAt(s, 1) = "," THEN <<acc>> \o SplitComma(SubSeq(s, 2, Len(s)), "")
  ELSE SplitComma(SubSeq(s, 2, Len(s)), acc \o CharAt(s, 1))

\* keys.join(", ")
RECURSIVE JoinComma(_)
JoinComma(a) ==
  IF Len(a) = 0 THEN ""
  ELSE IF Len(a) = 1 THEN a[1].v
  ELSE a[1].v \o ", " \o JoinComma(Tail(a))

\* String(t) for the value kinds a tag list can carry
JsString(x) ==
  CASE x.t = "str" -> x.v
    [] x.t = "null" -> "null"
    [] x.t = "undef" -> "undefined"
    [] x.t = "num" -> ToString(x.v)
    [] x.t = "bool" -> IF x.v THEN "true" ELSE "false"

(***************************************************************************)
(* Card normalization layer: services/cardImportService                    *)
(***************************************************************************)
\* Date.now() : the wall clock is an input no claim reads; one instant
DateNow == Str("now")

\* faulty variant of the unwrap: the parsed root is taken as the card
NoUnwrap(rawRoot) == rawRoot

\* faulty variant of the unwrap: only the marked envelope is opened
UnwrapMarkedOnly(rawRoot) ==
  IF Get(rawRoot, "spec") = Str("chara_card_v2") /\ Truthy(Get(rawRoot, "data"))
  THEN Get(rawRoot, "data")
  ELSE rawRoot

\* Unwrap v2 spec (buildCharacter, first three statements)
Unwrap(rawRoot) ==
  IF Get(rawRoot, "spec") = Str("chara_card_v2") /\ Truthy(Get(rawRoot, "data"))
  THEN Get(rawRoot, "data")
  ELSE IF ~Truthy(Get(rawRoot, "name")) /\ Truthy(Get(Get(rawRoot, "data"), "name"))
  THEN Get(rawRoot, "data")
  ELSE rawRoot

NonEmptyStr(x) == x.v # ""

\* faulty variant of the tags: pieces are kept as written, empties included
MapTagsUntrimmed(d) ==
  LET tg == Get(d, "tags") IN
  IF tg.t = "arr"
  THEN Arr([i \in DOMAIN tg.v |-> Str(JsString(tg.v[i]))])
  ELSE IF tg.t = "str"
  THEN LET parts == SplitComma(tg.v, "") IN Arr([i \in DOMAIN parts |-> Str(parts[i])])
  ELSE EmptyArr

\* Tags: an array of anything, or one comma-separated string
MapTags(d) ==
  LET tg == Get(d, "tags") IN
  IF tg.t = "arr"
  THEN Arr(SelectSeq([i \in DOMAIN tg.v |-> Str(Trim(JsString(tg.v[i])))], NonEmptyStr))
  ELSE IF tg.t = "str"
  THEN LET parts == SplitComma(tg.v, "") IN
       Arr(SelectSeq([i \in DOMAIN parts |-> Str(Trim(parts[i]))], NonEmptyStr))
  ELSE EmptyArr

\* Character book: every entry gets the keysInput helper of the editor
WithKeysInput(e) ==
  LET keys == Get(e, "keys") IN
  Obj(("keysInput" :> Str(IF keys.t = "arr" THEN JoinComma(keys.v) ELSE ""))
        @@ Spread(e))

MapBook(d) ==
  LET book == Get(d, "character_book")
      es == Get(book, "entries") IN
  IF Truthy(es)
  THEN Obj(("entries" :> Arr([i \in DOMAIN es.v |-> WithKeysInput(es.v[i])]))
             @@ Spread(book))
  ELSE book

buildCharacter(rawRoot, fileName, avatarUrl, id, format) ==
  LET d == Unwrap(rawRoot) IN
  [ id |-> id,
    name |-> Or(Get(d, "name"), Str("Unknown")),
    description |-> Or(Get(d, "description"), Str("")),
    personality |-> Or(Get(d, "personality"), Str("")),
    firstMessage |-> Or(Get(d, "first_mes"), Or(Get(d, "firstMessage"),
                       Or(Get(d, "intro"), Or(Get(d, "greeting"), Str(""))))),
    alternate_greetings |-> Or(Get(d, "alternate_greetings"),
                              Or(Get(d, "alternate_greeting"), EmptyArr)),
    scenario |-> Or(Get(d, "scenario"), Str("")),
    character_book |-> MapBook(d),
    tags |-> MapTags(d),
    avatarUrl |-> avatarUrl,
    qrList |-> Or(Get(d, "qrList"), EmptyArr),
    originalFilename |-> fileName,
    sourceUrl |-> Or(Get(d, "sourceUrl"), Str("")),
    cardUrl |-> Undef,
    creator_notes |-> Or(Get(d, "creator_notes"), Or(Get(d, "creatorcomment"), Str(""))),
    mes_example |-> Or(Get(d, "mes_example"), Str("")),
    system_prompt |-> Or(Get(d, "system_prompt"), Str("")),
    post_history_instructions |-> Or(Get(d, "post_history_instructions"), Str("")),
    creator |-> Or(Get(d, "creator"), Str("")),
    character_version |-> Or(Get(d, "character_version"), Str("")),
    extensions |-> Or(Get(d, "extensions"), EmptyObj),
    rawData |-> d,
    importDate |-> DateNow,
    updatedAt |-> Undef,
    extra_qr_data |-> Get(d, "extra_qr_data"),
    qrFileName |-> Undef,
    isFavorite |-> Undef,
    folder |-> Undef,
    importFormat |-> format ]

\* faulty variant of the strip: the entry is written with its keysInput
KeepKeysInput(e) == e

\* Character book for export: the UI-only keysInput is stripped from entries
StripKeysInput(e) ==
  Obj([k \in DOMAIN Spread(e) \ {"keysInput"} |-> e.v[k]])

ExportBook(book) ==
  LET es == Or(Get(book, "entries"), EmptyArr) IN
  Obj(("entries" :> Arr([i \in DOMAIN es.v |-> StripKeysInput(es.v[i])]))
        @@ Spread(book))

EditedFields(character, base) ==
  [ name |-> character.name,
    description |-> character.description,
    personality |-> character.personality,
    first_mes |-> character.firstMessage,
    alternate_greetings |-> Or(character.alternate_greetings, EmptyArr),
    scenario |-> Or(character.scenario, Str("")),
    mes_example |-> Or(character.mes_example, Str("")),
    system_prompt |-> Or(character.system_prompt, Str("")),
    post_history_instructions |-> Or(character.post_history_instructions, Str("")),
    creator_notes |-> Or(character.creator_notes, Str("")),
    creator |-> Or(character.creator, Str("")),
    character_version |-> Or(character.character_version, Str("")),
    tags |-> Or(character.tags, EmptyArr),
    extensions |-> Or(character.extensions, EmptyObj),
    character_book |-> IF Truthy(character.character_book)
                       THEN ExportBook(character.character_book)
                       ELSE Get(Obj(base), "character_book") ]

\* faulty variant of the merge: the original fields are not carried over
MergeEditedOnly(base, editedFields) == editedFields

\* Merge: base (original) <- editedFields (user edits)
MergeExport(base, editedFields) == editedFields @@ base

\* faulty variant: the record's own bookkeeping is merged into the body
buildExportDataWithMeta(character) ==
  LET base == IF Truthy(character.rawData) THEN Spread(character.rawData) ELSE <<>>
  IN Obj([ spec |-> Str("chara_card_v2"),
           spec_version |-> Str("2.0"),
           data |-> Obj(MergeExport(base, EditedFields(character, base))
                          @@ [ id |-> Num(character.id),
                               isFavorite |-> character.isFavorite,
                               updatedAt |-> character.updatedAt ]) ])

buildExportData(character) ==
  LET base == IF Truthy(character.rawData) THEN Spread(character.rawData) ELSE <<>>
  IN Obj([ spec |-> Str("chara_card_v2"),
           spec_version |-> Str("2.0"),
           data |-> Obj(MergeExport(base, EditedFields(character, base))) ])

\* What a written export file holds and what reading it back yields:
\* JSON.stringify on the way out, JSON.parse on the way in
ExportFile(character) == JsonClone(buildExportData(character))

\* base name of an export: originalFilename.replace(/\.[^/.]+$/, "")
RECURSIVE LastDot(_, _)
LastDot(s, i) ==
  IF i = 0 THEN 0
  ELSE IF CharAt(s, i) = "." THEN i
  ELSE IF CharAt(s, i) = "/" THEN 0
  ELSE LastDot(s, i - 1)

StripExt(s) ==
  LET i == LastDot(s, Len(s)) IN
  IF i = 0 \/ i = Len(s) THEN s ELSE SubSeq(s, 1, i - 1)

\* parseQrFile, on the parsed JSON value of the file
QrRecognized(data) ==
  \/ Get(data, "qrList").t = "arr"
  \/ Get(data, "quickReplySlots").t = "arr"
  \/ data.t = "arr"

\* faulty variant: quickReplySlots is looked at before qrList
parseQrFileSlotsFirst(data) ==
  IF Truthy(data) /\ Get(data, "quickReplySlots").t = "arr"
  THEN [list |-> Get(data, "quickReplySlots"), raw |-> data]
  ELSE IF Truthy(data) /\ Get(data, "qrList").t = "arr"
  THEN [list |-> Get(data, "qrList"), raw |-> data]
  ELSE [list |-> data, raw |-> Obj([qrList |-> data])]

parseQrFile(data) ==
  IF Truthy(data) /\ Get(data, "qrList").t = "arr"
  THEN [list |-> Get(data, "qrList"), raw |-> data]
  ELSE IF Truthy(data) /\ Get(data, "quickReplySlots").t = "arr"
  THEN [list |-> Get(data, "quickReplySlots"), raw |-> data]
  ELSE [list |-> data, raw |-> Obj([qrList |-> data])]

(***************************************************************************)
(* Bytes and text: TextDecoder / TextEncoder on the ASCII range            *)
(***************************************************************************)
\* the printable ASCII characters: codes 32..95 and 97..126
AsciiLow ==
  " !\"#$%&'()*+,-./0123456789:;<=>?@ABCDEFGHIJKLMNOPQRSTUVWXYZ[\\]^_"
AsciiHigh == "abcdefghijklmnopqrstuvwxyz{|}~"

\* the character a byte decodes to; "\f" stands for the other control
\* characters and "?" for code 96 and for a byte outside ASCII
Chr(b) ==
  IF b >= 32 /\ b <= 95 THEN CharAt(AsciiLow, b - 31)
  ELSE IF b >= 97 /\ b <= 126 THEN CharAt(AsciiHigh, b - 96)
  ELSE IF b = 9 THEN "\t"
  ELSE IF b = 10 THEN "\n"
  ELSE IF b = 13 THEN "\r"
  ELSE IF b < 32 \/ b = 127 THEN "\f"
  ELSE "?"

Ord(c) ==
  IF c = "\t" THEN 9
  ELSE IF c = "\n" THEN 10
  ELSE IF c = "\r" THEN 13
  ELSE IF c = "\f" THEN 12
  ELSE IF InString(c, AsciiHigh)
  THEN 96 + (CHOOSE i \in 1..Len(AsciiHigh) : CharAt(AsciiHigh, i) = c)
  ELSE 31 + (CHOOSE i \in 1..Len(AsciiLow) : CharAt(AsciiLow, i) = c)

\* new TextDecoder("utf-8").decode(bytes)
RECURSIVE BytesToText(_)
BytesToText(bytes) ==
  IF Len(bytes) = 0 THEN ""
  ELSE IF Len(bytes) = 1 THEN Chr(bytes[1])
  ELSE LET mid == Len(bytes) \div 2 IN
       BytesToText(SubSeq(bytes, 1, mid)) \o BytesToText(SubSeq(bytes, mid + 1, Len(bytes)))

\* new TextEncoder().encode(str)
TextToBytes(str) == [i \in 1..Len(str) |-> Ord(CharAt(str, i))]

\* readText(buffer, start, length): start is a 0-based offset; slice clamps
\* to the buffer
readText(buffer, start, length) ==
  BytesToText(SubSeq(buffer, start + 1,
                     IF start + length > Len(buffer) THEN Len(buffer) ELSE start + length))

\* str.toLowerCase()
RECURSIVE ToLowerCase(_)
ToLowerCase(s) ==
  IF Len(s) = 0 THEN "" ELSE ToLowerChar(CharAt(s, 1)) \o ToLowerCase(SubSeq(s, 2, Len(s)))

\* str.replace(/\s/g, "")
RECURSIVE StripSpace(_)
StripSpace(s) ==
  IF Len(s) = 0 THEN ""
  ELSE IF Len(s) = 1 THEN (IF IsSpace(s) THEN "" ELSE s)
  ELSE LET mid == Len(s) \div 2 IN
       StripSpace(SubSeq(s, 1, mid)) \o StripSpace(SubSeq(s, mid + 1, Len(s)))

(***************************************************************************)
(* Base64: atob / btoa                                                     *)
(***************************************************************************)
B64Chars == "ABCDEFGHIJKLMNOPQRSTUVWXYZabcdefghijklmnopqrstuvwxyz0123456789+/"

B64Val(c) == (CHOOSE i \in 1..Len(B64Chars) : CharAt(B64Chars, i) = c) - 1

\* the bytes of a string of base64 digits without padding
RECURSIVE B64Bytes(_)
B64Bytes(s) ==
  IF Len(s) < 2 THEN <<>>
  ELSE LET a == B64Val(CharAt(s, 1))
           b == B64Val(CharAt(s, 2))
           c == IF Len(s) >= 3 THEN B64Val(CharAt(s, 3)) ELSE 0
           d == IF Len(s) >= 4 THEN B64Val(CharAt(s, 4)) ELSE 0
           n == ((a * 64 + b) * 64 + c) * 64 + d
           three == <<n \div 65536, (n \div 256) % 256, n % 256>>
           mid == 4 * (((Len(s) + 3) \div 4) \div 2)
       IN IF Len(s) = 2 THEN SubSeq(three, 1, 1)
          ELSE IF Len(s) = 3 THEN SubSeq(three, 1, 2)
          ELSE IF Len(s) = 4 THEN three
          ELSE B64Bytes(SubSeq(s, 1, mid)) \o B64Bytes(SubSeq(s, mid + 1, Len(s)))

\* atob(data): forgiving-base64 decode; ok is FALSE where atob throws
atob(data) ==
  LET n == Len(data)
      unpadded ==
        IF n > 0 /\ n % 4 = 0 /\ CharAt(data, n) = "="
        THEN IF CharAt(data, n - 1) = "=" THEN SubSeq(data, 1, n - 2)
             ELSE SubSeq(data, 1, n - 1)
        ELSE data
  IN IF Len(unpadded) % 4 = 1
        \/ \E i \in 1..Len(unpadded) : ~InString(CharAt(unpadded, i), B64Chars)
     THEN [ok |-> FALSE, bytes |-> <<>>]
     ELSE [ok |-> TRUE, bytes |-> B64Bytes(unpadded)]

\* btoa of a byte string
RECURSIVE btoa(_)
btoa(bytes) ==
  IF Len(bytes) = 0 THEN ""
  ELSE LET b1 == bytes[1]
           b2 == IF Len(bytes) >= 2 THEN bytes[2] ELSE 0
           b3 == IF Len(bytes) >= 3 THEN bytes[3] ELSE 0
           n == (b1 * 256 + b2) * 256 + b3
           D(k) == CharAt(B64Chars, k + 1)
           mid == 3 * (((Len(bytes) + 2) \div 3) \div 2)
       IN IF Len(bytes) > 3
          THEN btoa(SubSeq(bytes, 1, mid)) \o btoa(SubSeq(bytes, mid + 1, Len(bytes)))
          ELSE D(n \div 262144) \o D((n \div 4096) % 64)
                 \o (IF Len(bytes) >= 2 THEN D((n \div 64) % 64) ELSE "=")
                 \o (IF Len(bytes) >= 3 THEN D(n % 64) ELSE "=")

\* decodeBase64Utf8: ok is FALSE where it throws
decodeBase64Utf8(base64) ==
  LET clean == StripSpace(base64)
      bin == atob(clean)
  IN IF bin.ok THEN [ok |-> TRUE, text |-> BytesToText(bin.bytes)]
     ELSE IF StartsWith(Trim(clean), "{") THEN [ok |-> TRUE, text |-> clean]
     ELSE [ok |-> FALSE, text |-> ""]

encodeBase64Utf8(str) == btoa(TextToBytes(str))

(***************************************************************************)
(* JSON.parse on a text. Positions are 1-based; a result is                *)
(* [ok, v, i] with i the position after the value. Numbers are integers    *)
(* (no fraction or exponent); strings know the escapes \" \\ \/ \n \t.     *)
(***************************************************************************)
JsonFail == [ok |-> FALSE, v |-> Undef, i |-> 0]

RECURSIVE SkipWs(_, _)
SkipWs(s, i) ==
  IF i <= Len(s) /\ IsSpace(CharAt(s, i)) THEN SkipWs(s, i + 1) ELSE i

\* the characters of a string literal from position i on, up to the closing quote
RECURSIVE ParseChars(_, _, _)
ParseChars(s, i, acc) ==
  IF i > Len(s) THEN JsonFail
  ELSE LET c == CharAt(s, i) IN
       IF c = "\"" THEN [ok |-> TRUE, v |-> Str(acc), i |-> i + 1]
       ELSE IF c = "\\"
       THEN IF i + 1 > Len(s) THEN JsonFail
            ELSE LET e == CharAt(s, i + 1) IN
                 IF e \in {"\"", "\\", "/"} THEN ParseChars(s, i + 2, acc \o e)
                 ELSE IF e = "n" THEN ParseChars(s, i + 2, acc \o "\n")
                 ELSE IF e = "t" THEN ParseChars(s, i + 2, acc \o "\t")
                 ELSE JsonFail
       ELSE IF c \in {"\n", "\t", "\r", "\f"} THEN JsonFail
       ELSE ParseChars(s, i + 1, acc \o c)

RECURSIVE ParseDigits(_, _, _)
ParseDigits(s, i, acc) ==
  IF i <= Len(s) /\ InString(CharAt(s, i), DigitChars)
  THEN ParseDigits(s, i + 1, acc * 10 + (Ord(CharAt(s, i)) - 48))
  ELSE [ok |-> TRUE, v |-> Num(acc), i |-> i]

ParseNumber(s, i) ==
  LET neg == CharAt(s, i) = "-"
      j == IF neg THEN i + 1 ELSE i
  IN IF j > Len(s) \/ ~InString(CharAt(s, j), DigitChars) THEN JsonFail
     ELSE IF CharAt(s, j) = "0" /\ j < Len(s) /\ InString(CharAt(s, j + 1), DigitChars)
     THEN JsonFail
     ELSE LET r == ParseDigits(s, j, 0) IN
          IF r.i <= Len(s) /\ CharAt(s, r.i) \in {".", "e", "E"} THEN JsonFail
          ELSE [r EXCEPT !.v = Num(IF neg THEN 0 - r.v.v ELSE r.v.v)]

ParseLiteral(s, i, word, val) ==
  IF i + Len(word) - 1 <= Len(s) /\ SubSeq(s, i, i + Len(word) - 1) = word
  THEN [ok |-> TRUE, v |-> val, i |-> i + Len(word)]
  ELSE JsonFail

RECURSIVE ParseValue(_, _)
RECURSIVE ParseMembers(_, _, _)
RECURSIVE ParseElements(_, _, _)

\* the members of an object after "{" or ",": i is at the key's quote
ParseMembers(s, i, acc) ==
  IF i > Len(s) \/ CharAt(s, i) # "\"" THEN JsonFail
  ELSE LET k == ParseChars(s, i + 1, "") IN
       IF ~k.ok THEN JsonFail
       ELSE LET c == SkipWs(s, k.i) IN
            IF c > Len(s) \/ CharAt(s, c) # ":" THEN JsonFail
            ELSE LET val == ParseValue(s, SkipWs(s, c + 1)) IN
                 IF ~val.ok THEN JsonFail
                 ELSE LET n == SkipWs(s, val.i)
                          obj == (k.v.v :> val.v) @@ acc
                      IN IF n > Len(s) THEN JsonFail
                         ELSE IF CharAt(s, n) = "}"
                         THEN [ok |-> TRUE, v |-> Obj(obj), i |-> n + 1]
                         ELSE IF CharAt(s, n) = ","
                         THEN ParseMembers(s, SkipWs(s, n + 1), obj)
                         ELSE JsonFail

\* the elements of an array after "[" or ","
ParseElements(s, i, acc) ==
  LET val == ParseValue(s, i) IN
  IF ~val.ok THEN JsonFail
  ELSE LET n == SkipWs(s, val.i)
           arr == Append(acc, val.v)
       IN IF n > Len(s) THEN JsonFail
          ELSE IF CharAt(s, n) = "]" THEN [ok |-> TRUE, v |-> Arr(arr), i |-> n + 1]
          ELSE IF CharAt(s, n) = "," THEN ParseElements(s, SkipWs(s, n + 1), arr)
          ELSE JsonFail

ParseValue(s, i) ==
  IF i > Len(s) THEN JsonFail
  ELSE LET c == CharAt(s, i) IN
       IF c = "{"
       THEN LET j == SkipWs(s, i + 1) IN
            IF j <= Len(s) /\ CharAt(s, j) = "}"
            THEN [ok |-> TRUE, v |-> EmptyObj, i |-> j + 1]
            ELSE ParseMembers(s, j, <<>>)
       ELSE IF c = "["
       THEN LET j == SkipWs(s, i + 1) IN
            IF j <= Len(s) /\ CharAt(s, j) = "]"
            THEN [ok |-> TRUE, v |-> EmptyArr, i |-> j + 1]
            ELSE ParseElements(s, j, <<>>)
       ELSE IF c = "\"" THEN ParseChars(s, i + 1, "")
       ELSE IF c = "t" THEN ParseLiteral(s, i, "true", Bool(TRUE))
       ELSE IF c = "f" THEN ParseLiteral(s, i, "false", Bool(FALSE))
       ELSE IF c = "n" THEN ParseLiteral(s, i, "null", Null)
       ELSE IF c = "-" \/ InString(c, DigitChars) THEN ParseNumber(s, i)
       ELSE JsonFail

\* JSON.parse(text): ok is FALSE where it throws
JsonParse(text) ==
  LET r == ParseValue(text, SkipWs(text, 1)) IN
  IF r.ok /\ SkipWs(text, r.i) > Len(text)
  THEN [ok |-> TRUE, v |-> r.v] ELSE [ok |-> FALSE, v |-> Undef]

(***************************************************************************)
(* decompressZlib. Deflate data is modelled for stored blocks (BTYPE 00);  *)
(* a block of another type does not inflate.                               *)
(***************************************************************************)
InflateFail == [ok |-> FALSE, bytes |-> <<>>, i |-> 0]

\* the deflate blocks of data from position i on; i is the position after
\* the final block
RECURSIVE InflateBlocks(_, _, _)
InflateBlocks(data, i, acc) ==
  IF i + 4 > Len(data) THEN InflateFail
  ELSE LET bfinal == data[i] % 2
           btype == (data[i] \div 2) % 4
           len == data[i + 1] + 256 * data[i + 2]
           nlen == data[i + 3] + 256 * data[i + 4]
       IN IF btype # 0 \/ len + nlen # 65535 \/ i + 4 + len > Len(data)
          THEN InflateFail
          ELSE LET out == acc \o SubSeq(data, i + 5, i + 4 + len) IN
               IF bfinal = 1 THEN [ok |-> TRUE, bytes |-> out, i |-> i + 5 + len]
               ELSE InflateBlocks(data, i + 5 + len, out)

RECURSIVE AdlerSums(_, _, _)
AdlerSums(bytes, a, b) ==
  IF Len(bytes) = 0 THEN <<a, b>>
  ELSE LET a2 == (a + Head(bytes)) % 65521 IN
       AdlerSums(Tail(bytes), a2, (b + a2) % 65521)

\* the four bytes of the Adler-32 checksum, most significant first
Adler32(bytes) ==
  LET s == AdlerSums(bytes, 1, 0) IN
  <<s[2] \div 256, s[2] % 256, s[1] \div 256, s[1] % 256>>

\* DecompressionStream("deflate-raw"): the whole input is one deflate stream
InflateRaw(data) ==
  LET r == InflateBlocks(data, 1, <<>>) IN
  IF r.ok /\ r.i = Len(data) + 1 THEN r ELSE InflateFail

\* DecompressionStream("deflate"): zlib header, deflate stream, Adler-32
InflateZlib(data) ==
  IF Len(data) < 6 THEN InflateFail
  ELSE LET r == InflateBlocks(data, 3, <<>>) IN
       IF /\ data[1] % 16 = 8
          /\ (data[1] * 256 + data[2]) % 31 = 0
          /\ (data[2] \div 32) % 2 = 0
          /\ r.ok
          /\ r.i + 3 = Len(data)
          /\ SubSeq(data, r.i, r.i + 3) = Adler32(r.bytes)
       THEN r ELSE InflateFail

decompressZlib(data) ==
  IF InflateRaw(data).ok THEN BytesToText(InflateRaw(data).bytes)
  ELSE IF InflateZlib(data).ok THEN BytesToText(InflateZlib(data).bytes)
  ELSE IF Len(data) > 6 /\ InflateRaw(SubSeq(data, 3, Len(data) - 4)).ok
  THEN BytesToText(InflateRaw(SubSeq(data, 3, Len(data) - 4)).bytes)
  ELSE ""

(***************************************************************************)
(* PNG chunks                                                              *)
(***************************************************************************)
PNG_SIG == <<137, 80, 78, 71, 13, 10, 26, 10>>

\* the keyword set with one more keyword in it
KNOWN_KEYS_AndNote == {"chara", "character", "tavern", "sillytavern", "ccv3", "note"}

KNOWN_KEYS == {"chara", "character", "tavern", "sillytavern", "ccv3"}

\* big-endian 32-bit length
U32(n) == <<(n \div 16777216) % 256, (n \div 65536) % 256, (n \div 256) % 256, n % 256>>

\* dataView.getUint32(offset): offset is 0-based
getUint32(buffer, offset) ==
  ((buffer[offset + 1] * 256 + buffer[offset + 2]) * 256 + buffer[offset + 3]) * 256
    + buffer[offset + 4]

\* first index i (0-based) in dataStart..dataEnd-1 with buffer[i] = 0, or -1
FindZero(buffer, dataStart, dataEnd) ==
  LET hits == {i \in dataStart..(dataEnd - 1) : buffer[i + 1] = 0} IN
  IF hits = {} THEN 0 - 1 ELSE CHOOSE i \in hits : \A j \in hits : i <= j

\* txt.trim().startsWith("{") || txt.trim().startsWith("ey")
LooksLikeCard(txt) == StartsWith(Trim(txt), "{") \/ StartsWith(Trim(txt), "ey")

\* try { JSON.parse(decodeBase64Utf8(txt)) } catch { try { JSON.parse(txt) } catch {} }
\* ok is FALSE when both attempts throw
ParseCardText(txt) ==
  LET dec == decodeBase64Utf8(txt)
      first == IF dec.ok THEN JsonParse(dec.text) ELSE [ok |-> FALSE, v |-> Undef]
  IN IF first.ok THEN first ELSE JsonParse(txt)

(***************************************************************************)
(* Inputs: the files a user can pick                                       *)
(***************************************************************************)
LoreEntry(keys, content) ==
  Obj([keys |-> Arr(keys), content |-> Str(content), insertion_order |-> Num(100)])

\* a bare object (no envelope) with a field the typed model does not know
CardAria ==
  Obj([ name |-> Str("Aria"), description |-> Str("A guide."),
        first_mes |-> Str("Hello traveler."), talkativeness |-> Str("0.5"),
        character_book |->
          Obj([ name |-> Str("lore"),
                entries |-> Arr(<<LoreEntry(<<Str("elf"), Str("forest")>>, "Elves"),
                                  LoreEntry(<<Str("sea")>>, "Sea")>>) ]) ])

\* a version-2 envelope; the body carries a key named like an app-only field
CardKael ==
  Obj([ spec |-> Str("chara_card_v2"), spec_version |-> Str("2.0"),
        data |-> Obj([ name |-> Str("Kael"), tags |-> Str("brave, noble"),
                       alternate_greetings |-> Arr(<<Str("Hi"), Str("Yo")>>),
                       extensions |-> Obj([depth |-> Str("4")]),
                       folder |-> Str("heroes") ]) ])

\* an unmarked object with nested data, legacy alias keys and a quick-reply list
CardMira ==
  Obj([ data |-> Obj([ name |-> Str("Mira"), intro |-> Str("hey"),
                       creatorcomment |-> Str("by me"),
                       tags |-> Arr(<<Str("brave"), Str(" hero ")>>),
                       qrList |-> Arr(<<Obj([id |-> Num(1), label |-> Str("Wave"),
                                            message |-> Str("/wave")])>>),
                       world |-> Obj([era |-> Str("old")]) ]) ])

\* the card of the worked example
CardGuide ==
  Obj([ name |-> Str("Aria"), description |-> Str("A guide."),
        first_mes |-> Str("Hello traveler.") ])

CardFiles ==
  { [name |-> "aria.json", content |-> CardAria],
    [name |-> "kael.json", content |-> CardKael],
    [name |-> "mira.json", content |-> CardMira] }

\* The objects a picked .json file can parse to: bodies that vary the keys
\* buildCharacter reads, each bare and inside the wrappers it tells apart
Opt(k, vals) == {<<>>} \cup {k :> v : v \in vals}

FieldBodies ==
  { Obj(n @@ fm @@ fM @@ intro @@ gr @@ cn @@ cc @@ ("lore" :> Str("kept"))) :
      n \in Opt("name", {Str(""), Str("N")}),
      fm \in Opt("first_mes", {Str(""), Null, Str("A")}),
      fM \in Opt("firstMessage", {Str("B")}),
      intro \in Opt("intro", {Str("C")}),
      gr \in Opt("greeting", {Str("D")}),
      cn \in Opt("creator_notes", {Str(""), Str("note")}),
      cc \in Opt("creatorcomment", {Str("old note")}) }

BookShapes ==
  { Null,
    Obj([name |-> Str("lore")]),
    Obj([name |-> Str("lore"),
         entries |-> Arr(<<LoreEntry(<<Str("elf"), Str("forest")>>, "Elves"),
                           LoreEntry(<<>>, "Void"),
                           LoreEntry(<<Str("sea")>>, "Sea")>>)]),
    Obj([entries |-> Arr(<<Obj([keys |-> Str("elf"), content |-> Str("Elves"),
                                keysInput |-> Str("stale")])>>)]) }

TagShapes ==
  { Null, Num(5), Obj([a |-> Str("b")]), Str(""), Str("brave, noble"),
    Str(" a ,, b "), Arr(<<Str(" x "), Str(""), Str("y"), Str("x")>>),
    Arr(<<Null, Num(7), Str("z,w")>>) }

ListBodies ==
  { Obj(("name" :> Str("T")) @@ tg @@ ag @@ old @@ book @@ ext) :
      tg \in Opt("tags", TagShapes),
      ag \in Opt("alternate_greetings",
                 {EmptyArr, Arr(<<Str("Hi"), Str("Yo")>>),
                  Arr(<<Str("b"), Str("a"), Str("b")>>)}),
      old \in Opt("alternate_greeting", {Arr(<<Str("Old")>>)}),
      book \in Opt("character_book", BookShapes),
      ext \in Opt("extensions", {Obj([depth |-> Str("4")])}) }

JsonBodies == FieldBodies \cup ListBodies

Wrappings(body) ==
  { body,
    Obj([spec |-> Str("chara_card_v2"), spec_version |-> Str("2.0"), data |-> body]),
    Obj([spec |-> Str("chara_card_v2"), name |-> Str("Outer"), data |-> body]),
    Obj([spec |-> Str("chara_card_v3"), data |-> body]),
    Obj([data |-> body]),
    Obj([name |-> Str(""), data |-> body]),
    Obj([name |-> Str("Outer"), data |-> body]),
    Obj([spec |-> Str("chara_card_v2"), name |-> Str("Flat"), data |-> Null]) }

JsonRoots == UNION {Wrappings(body) : body \in JsonBodies}

QrGreet == Obj([id |-> Num(1), label |-> Str("Greet"), message |-> Str("Hello!")])

QrFiles ==
  { [name |-> "slots.json", content |-> Obj([quickReplySlots |-> Arr(<<QrGreet>>)])],
    [name |-> "list.json",
     content |-> Obj([qrList |-> Arr(<<QrGreet>>), color |-> Str("red")])],
    [name |-> "bad.json", content |-> Obj([foo |-> Num(1)])] }

(***************************************************************************)
(* Bounds of the model                                                     *)
(***************************************************************************)
\* Spec (editing runs): files imported, form edits and list-side updates
MaxChars == 1
MaxEdits == 1
MaxListOps == 2
\* SpecTrip (export / re-import runs): files imported and files written
MaxTripChars == 2
MaxExports == 2

TagNames == {"brave", "vip"}
TextValues == {"", "Edited"}
TextFields == {"name", "description", "personality", "scenario", "firstMessage",
               "originalFilename", "sourceUrl"}

(***************************************************************************)
(* State                                                                   *)
(***************************************************************************)
VARIABLES
  characters,            \* App: useState<Character[]>
  view,                  \* App: 'list' | 'edit'
  selectedCharacterId,   \* App: id of the record being edited, 0 for null
  formData,              \* CharacterForm: useState<Partial<Character>>
  collections,           \* CharacterList: collection names
  customTags,            \* CharacterList: card tags added by hand
  downloads,             \* files handed to downloadBlob
  imageStore,            \* imageService: ids that hold an avatar blob
  nextId,                \* crypto.randomUUID(): next fresh id
  edits,                 \* number of form edits made so far
  listOps                \* number of list-side updates made so far

\* parseCharacterCard, while a picked PNG file is being read
VARIABLES
  uint8Array,            \* the bytes of the file
  pc,                    \* where the parse stands
  offset,                \* 0-based position of the scan
  iterations,            \* times the body of the chunk walk was entered
  characterData,         \* parsed card data, null until a chunk yields it
  fallbackChunks,        \* texts kept for the fallback
  thrown                 \* message of the error thrown, "" for none

pngVars == <<uint8Array, pc, offset, iterations, characterData, fallbackChunks, thrown>>

\* handleFileChange, while a batch of picked files is being imported
VARIABLES
  fileArray,             \* Array.from(files): the files of the batch
  fileIndex,             \* position of the for-of loop, 0 when no batch runs
  successCount,          \* files imported
  failCount,             \* files that failed
  failedFiles,           \* one message per failed file
  importingCount         \* useState<number>: files announced as importing

batchVars == <<fileArray, fileIndex, successCount, failCount, failedFiles,
               importingCount>>

appVars == <<characters, view, selectedCharacterId, formData, collections,
             customTags, downloads, imageStore, nextId, edits, listOps>>

\* The form's state when no record is passed in (useState default)
BlankForm ==
  [ id |-> 0, name |-> Str(""), description |-> Str(""), personality |-> Str(""),
    firstMessage |-> Str(""), alternate_greetings |-> EmptyArr,
    scenario |-> Str(""), character_book |-> Obj([entries |-> EmptyArr]),
    tags |-> EmptyArr, avatarUrl |-> Str("https://picsum.photos/seed/r/400/400"),
    qrList |-> EmptyArr, originalFilename |-> Str(""), sourceUrl |-> Str(""),
    cardUrl |-> Str(""), creator_notes |-> Undef, mes_example |-> Undef,
    system_prompt |-> Undef, post_history_instructions |-> Undef,
    creator |-> Undef, character_version |-> Undef, extensions |-> Undef,
    rawData |-> Undef, importDate |-> Undef, updatedAt |-> Undef,
    extra_qr_data |-> EmptyObj, qrFileName |-> Undef, isFavorite |-> Undef,
    folder |-> Undef, importFormat |-> Undef ]

Ids(chars) == {chars[i].id : i \in DOMAIN chars}

\* characters.find(c => c.id === id)
FindChar(chars, id) == chars[CHOOSE i \in DOMAIN chars : chars[i].id = id]

\* prev.map(c => c.id === char.id ? char : c)
ReplaceChar(chars, char) ==
  [i \in DOMAIN chars |-> IF chars[i].id = char.id THEN char ELSE chars[i]]

IsBlobUrl(url) == url.t = "str" /\ StartsWith(url.v, "blob:")

\* collections are restored from localStorage when the list mounts
SavedCollections == {<<>>, <<"brave">>}

\* no batch is being imported
BatchIdle ==
  /\ fileArray = <<>>
  /\ fileIndex = 0
  /\ successCount = 0
  /\ failCount = 0
  /\ failedFiles = <<>>
  /\ importingCount = 0

AppInit ==
  /\ BatchIdle
  /\ characters = <<>>
  /\ view = "list"
  /\ selectedCharacterId = 0
  /\ formData = BlankForm
  /\ collections \in SavedCollections
  /\ customTags = <<>>
  /\ downloads = {}
  /\ imageStore = {}
  /\ nextId = 1
  /\ edits = 0
  /\ listOps = 0

(***************************************************************************)
(* Import: CharacterList.handleFileChange -> parseCharacterJson /          *)
(* parseCharacterCard -> App.handleImportCharacter                         *)
(***************************************************************************)
parseCharacterJson(file, id) ==
  buildCharacter(file.content, Str(file.name),
                 Str("https://picsum.photos/seed/id/400/400"), id, Str("json"))

\* the record parseCharacterCard returns once the scan has found the payload
CardFromPng(file, id) ==
  buildCharacter(file.content, Str(file.name), Str("blob:file"), id, Str("png"))

EndsWith(s, suffix) ==
  Len(s) >= Len(suffix) /\ SubSeq(s, Len(s) - Len(suffix) + 1, Len(s)) = suffix

\* file.name of an archive entry: the part after the last "/"
RECURSIVE Basename(_)
Basename(path) ==
  IF \E i \in 1..Len(path) : CharAt(path, i) = "/"
  THEN Basename(SubSeq(path, (CHOOSE i \in 1..Len(path) : CharAt(path, i) = "/") + 1,
                       Len(path)))
  ELSE path

\* card files written by earlier exports (archive entries once unpacked)
DownloadedCards(ext) ==
  UNION { { [name |-> Basename(path), content |-> d.files[path].body] :
              path \in {q \in DOMAIN d.files :
                          d.files[q].kind = "card" /\ EndsWith(q, ext)} } :
          d \in downloads }

ImportJsonFile(limit) ==
  /\ view = "list"
  /\ nextId <= limit
  /\ \E file \in CardFiles \cup DownloadedCards(".json") :
       characters' = Append(characters, parseCharacterJson(file, nextId))
  /\ nextId' = nextId + 1
  /\ UNCHANGED pngVars
  /\ UNCHANGED batchVars
  /\ UNCHANGED <<view, selectedCharacterId, formData, collections, customTags,
                 downloads, imageStore, edits, listOps>>

\* handleFileChange on one picked .json file: parseCharacterJson builds the
\* record from the parsed object (held in characterData), onImport appends it
JsonInit ==
  /\ AppInit
  /\ collections = <<>>
  /\ uint8Array = <<>>
  /\ pc = "json"
  /\ offset = 8
  /\ iterations = 0
  /\ characterData \in JsonRoots
  /\ fallbackChunks = <<>>
  /\ thrown = ""

\* buildCharacter raises a TypeError: a property read on null (rawRoot.spec,
\* e.keys) or entries.map on a value that is not an array
BuildThrows(rawRoot) ==
  \/ rawRoot.t = "null"
  \/ LET es == Get(Get(Unwrap(rawRoot), "character_book"), "entries") IN
     /\ Truthy(es)
     /\ IF es.t = "arr" THEN \E i \in DOMAIN es.v : es.v[i].t \in {"null", "undef"}
        ELSE TRUE

ImportPickedJson ==
  /\ pc = "json"
  /\ ~BuildThrows(characterData)
  /\ characters' = Append(characters,
       parseCharacterJson([name |-> "picked.json", content |-> characterData], nextId))
  /\ nextId' = nextId + 1
  /\ pc' = "done"
  /\ UNCHANGED <<uint8Array, offset, iterations, characterData, fallbackChunks, thrown>>
  /\ UNCHANGED <<view, selectedCharacterId, formData, collections, customTags,
                 downloads, imageStore, edits, listOps>>
  /\ UNCHANGED batchVars

\* a PNG written by an earlier export, picked again for import
ImportPngFile ==
  /\ view = "list"
  /\ nextId <= MaxTripChars
  /\ \E file \in DownloadedCards(".png") :
       characters' = Append(characters, CardFromPng(file, nextId))
  /\ imageStore' = imageStore \cup {nextId}
  /\ nextId' = nextId + 1
  /\ UNCHANGED pngVars
  /\ UNCHANGED batchVars
  /\ UNCHANGED <<view, selectedCharacterId, formData, collections, customTags,
                 downloads, edits, listOps>>

(***************************************************************************)
(* CharacterForm: the editing surface                                      *)
(***************************************************************************)
\* App: onSelect -> setSelectedCharacterId, setView('edit'); the form mounts
\* with useState(initialData)
SelectCharacter ==
  /\ view = "list"
  /\ \E i \in DOMAIN characters :
       /\ selectedCharacterId' = characters[i].id
       /\ formData' = characters[i]
  /\ view' = "edit"
  /\ UNCHANGED pngVars
  /\ UNCHANGED batchVars
  /\ UNCHANGED <<characters, collections, customTags, downloads, imageStore,
                 nextId, edits, listOps>>

CanEdit == view = "edit" /\ edits < MaxEdits

Edited(newFormData) ==
  /\ formData' = newFormData
  /\ edits' = edits + 1
  /\ UNCHANGED pngVars
  /\ UNCHANGED batchVars
  /\ UNCHANGED <<characters, view, selectedCharacterId, collections, customTags,
                 downloads, imageStore, nextId, listOps>>

\* the onChange handlers of the text inputs
SetTextField ==
  /\ CanEdit
  /\ \E f \in TextFields, val \in TextValues :
       /\ formData[f] # Str(val)
       /\ Edited([formData EXCEPT ![f] = Str(val)])

FormTags == IF formData.tags.t = "arr" THEN formData.tags.v ELSE <<>>

SeqHas(a, x) == \E i \in DOMAIN a : a[i] = x

handleAddTag ==
  /\ CanEdit
  /\ \E typed \in TagNames :
       LET val == Trim(typed) IN
       /\ val # "" /\ ~SeqHas(FormTags, Str(val))
       /\ Edited([formData EXCEPT !.tags = Arr(Append(FormTags, Str(val)))])

removeTag ==
  /\ CanEdit
  /\ \E i \in DOMAIN FormTags :
       LET Keep(x) == x # FormTags[i] IN
       Edited([formData EXCEPT !.tags = Arr(SelectSeq(FormTags, Keep))])

FormAlts == Or(formData.alternate_greetings, EmptyArr).v

addAltGreeting ==
  /\ CanEdit
  /\ Edited([formData EXCEPT !.alternate_greetings = Arr(Append(FormAlts, Str("")))])

updateAltGreeting ==
  /\ CanEdit
  /\ \E idx \in DOMAIN FormAlts, val \in TextValues :
       /\ FormAlts[idx] # Str(val)
       /\ Edited([formData EXCEPT
                    !.alternate_greetings = Arr([FormAlts EXCEPT ![idx] = Str(val)])])

RemoveAt(a, idx) ==
  [i \in 1..(Len(a) - 1) |-> IF i < idx THEN a[i] ELSE a[i + 1]]

removeAltGreeting ==
  /\ CanEdit
  /\ formData.alternate_greetings.t = "arr"
  /\ \E idx \in DOMAIN FormAlts :
       Edited([formData EXCEPT !.alternate_greetings = Arr(RemoveAt(FormAlts, idx))])

setAsMain ==
  /\ CanEdit
  /\ \E idx \in DOMAIN FormAlts :
       LET oldMain == Or(formData.firstMessage, Str(""))
           newMain == FormAlts[idx] IN
       Edited([formData EXCEPT
                 !.firstMessage = newMain,
                 !.alternate_greetings = Arr([FormAlts EXCEPT ![idx] = oldMain])])

\* World book editor
FormEntries == Get(formData.character_book, "entries").v

SetEntries(es) ==
  [formData EXCEPT !.character_book =
     Obj(("entries" :> Arr(es)) @@ Spread(formData.character_book))]

\* the 'create world book' button when the record has no book
createBook ==
  /\ CanEdit
  /\ ~Truthy(formData.character_book)
  /\ Edited([formData EXCEPT !.character_book = Obj([entries |-> EmptyArr])])

HasBook == Truthy(formData.character_book) /\ Get(formData.character_book, "entries").t = "arr"

NewEntry ==
  Obj([ keys |-> EmptyArr, keysInput |-> Str(""), content |-> Str(""),
        enabled |-> Bool(TRUE), insertion_order |-> Num(100),
        case_sensitive |-> Bool(FALSE), selective |-> Bool(FALSE),
        constant |-> Bool(FALSE) ])

addEntry ==
  /\ CanEdit /\ HasBook
  /\ Edited(SetEntries(Append(FormEntries, NewEntry)))

deleteEntry ==
  /\ CanEdit /\ HasBook
  /\ \E idx \in DOMAIN FormEntries : Edited(SetEntries(RemoveAt(FormEntries, idx)))

\* patches the entry editor sends
EntryPatches ==
  { [keysInput |-> Str("moon, sun")], [keysInput |-> Str("")],
    [content |-> Str("Edited")], [enabled |-> Bool(FALSE)] }

KeysFromInput(s) ==
  LET parts == SplitComma(s, "") IN
  Arr(SelectSeq([i \in DOMAIN parts |-> Str(Trim(parts[i]))], NonEmptyStr))

PatchEntry(e, patch) ==
  LET updated == patch @@ Spread(e) IN
  IF "keysInput" \in DOMAIN patch
  THEN Obj(("keys" :> KeysFromInput(Or(patch.keysInput, Str("")).v)) @@ updated)
  ELSE Obj(updated)

updateEntry ==
  /\ CanEdit /\ HasBook
  /\ \E idx \in DOMAIN FormEntries, patch \in EntryPatches :
       /\ PatchEntry(FormEntries[idx], patch) # FormEntries[idx]
       /\ Edited(SetEntries([FormEntries EXCEPT ![idx] = PatchEntry(FormEntries[idx], patch)]))

\* Quick-reply file bound to the record; an unrecognized file only alerts
handleQrFileImport ==
  /\ CanEdit
  /\ \E file \in QrFiles :
       /\ QrRecognized(file.content)
       /\ LET r == parseQrFile(file.content) IN
          Edited([formData EXCEPT !.qrList = r.list, !.extra_qr_data = r.raw,
                                  !.qrFileName = Str(file.name)])

handleClearQr ==
  /\ CanEdit
  /\ Truthy(formData.qrList) /\ Len(formData.qrList.v) > 0
  /\ Edited([formData EXCEPT !.qrList = EmptyArr, !.extra_qr_data = EmptyObj,
                             !.qrFileName = Str("")])

handleAvatarChange ==
  /\ CanEdit
  /\ Edited([formData EXCEPT !.avatarUrl = Str("blob:avatar"),
                             !.originalFilename = Str("avatar.png"),
                             !.cardUrl = Str("avatar.png")])

\* faulty variant: the snapshot is rewritten with the edited name
FormRawDataSynced(initialData, fd) ==
  Obj(("name" :> fd.name) @@ Spread(initialData.rawData))

\* rawData: formData.rawData || initialData?.rawData
FormRawData(initialData, fd) == Or(fd.rawData, initialData.rawData)

\* getFullCharacter: initialData overlaid with the form's values
getFullCharacter(initialData, fd) ==
  [ initialData EXCEPT
      !.name = Or(fd.name, Str("Unknown")),
      !.description = Or(fd.description, Str("")),
      !.personality = Or(fd.personality, Str("")),
      !.firstMessage = Or(fd.firstMessage, Str("")),
      !.alternate_greetings = Or(fd.alternate_greetings, EmptyArr),
      !.avatarUrl = fd.avatarUrl,
      !.scenario = Or(fd.scenario, Str("")),
      !.character_book = fd.character_book,
      !.tags = Or(fd.tags, EmptyArr),
      !.qrList = Or(fd.qrList, EmptyArr),
      !.originalFilename = fd.originalFilename,
      !.sourceUrl = Or(fd.sourceUrl, Str("")),
      !.cardUrl = Or(fd.cardUrl, Str("")),
      !.mes_example = Or(fd.mes_example, Str("")),
      !.system_prompt = Or(fd.system_prompt, Str("")),
      !.post_history_instructions = Or(fd.post_history_instructions, Str("")),
      !.creator_notes = Or(fd.creator_notes, Str("")),
      !.creator = Or(fd.creator, Str("")),
      !.character_version = Or(fd.character_version, Str("")),
      !.extensions = Or(fd.extensions, EmptyObj),
      !.rawData = FormRawData(initialData, fd),
      !.extra_qr_data = fd.extra_qr_data,
      !.qrFileName = fd.qrFileName,
      !.updatedAt = DateNow,
      !.importDate = Or(initialData.importDate, DateNow),
      !.importFormat = Or(initialData.importFormat, Str("png")) ]

\* the record the open form would save or export
InitialData == FindChar(characters, selectedCharacterId)
FormCharacter == getFullCharacter(InitialData, formData)

\* handleSubmit -> App.handleSaveCharacter
handleSaveCharacter(chars, char) ==
  IF \E i \in DOMAIN chars : chars[i].id = char.id
  THEN ReplaceChar(chars, char)
  ELSE Append(chars, char)

handleSubmit ==
  /\ view = "edit"
  /\ Truthy(formData.name)
  /\ characters' = handleSaveCharacter(characters, FormCharacter)
  /\ imageStore' = IF IsBlobUrl(FormCharacter.avatarUrl)
                   THEN imageStore \cup {FormCharacter.id} ELSE imageStore
  /\ view' = "list"
  /\ formData' = BlankForm
  /\ UNCHANGED pngVars
  /\ UNCHANGED batchVars
  /\ UNCHANGED <<selectedCharacterId, collections, customTags, downloads, nextId, edits, listOps>>

onCancel ==
  /\ view = "edit"
  /\ view' = "list"
  /\ formData' = BlankForm
  /\ UNCHANGED pngVars
  /\ UNCHANGED batchVars
  /\ UNCHANGED <<characters, selectedCharacterId, collections, customTags,
                 downloads, imageStore, nextId, edits, listOps>>

(***************************************************************************)
(* Export: exportCharacterData / exportBulkCharacters                      *)
(***************************************************************************)
\* name.replace(/[^a-z0-9\u4e00-\u9fa5]/gi, "_").toLowerCase()
RECURSIVE SafeName(_)
SafeName(s) ==
  IF Len(s) = 0 THEN ""
  ELSE LET c == CharAt(s, 1) IN
       (IF InString(c, UpperChars) \/ InString(c, LowerChars) \/ InString(c, DigitChars)
        THEN ToLowerChar(c) ELSE "_") \o SafeName(SubSeq(s, 2, Len(s)))

ExportBase(character) ==
  IF Truthy(character.originalFilename)
  THEN StripExt(character.originalFilename.v)
  ELSE SafeName(character.name.v)

CardEntry(character) == [kind |-> "card", body |-> ExportFile(character)]

\* the quick-reply file of a package or bulk archive
PackageQrData(character) ==
  Obj(Spread(Or(character.extra_qr_data, EmptyObj))
        @@ [ version |-> Num(2), name |-> Str(character.name.v \o " QR"),
             qrList |-> character.qrList ])

QrEntry(character) == [kind |-> "qr", body |-> JsonClone(PackageQrData(character))]

QrName(character) ==
  IF Truthy(character.qrFileName) THEN character.qrFileName.v
  ELSE ExportBase(character) \o "_qr.json"

HasQr(character) == Truthy(character.qrList) /\ Len(character.qrList.v) > 0

\* exportCharacterData(character, format, forceZip); pngOk tells whether
\* createTavernPng succeeded (the avatar image may fail to load)
\* Returns the set of downloaded files: none when a plain PNG export fails
exportCharacterData(character, format, forceZip, pngOk) ==
  LET base == ExportBase(character)
      cardName == IF format = "png" /\ pngOk THEN base \o ".png" ELSE base \o ".json"
  IN
  IF ~forceZip
  THEN IF format = "png" /\ ~pngOk THEN {}
       ELSE {[filename |-> cardName, files |-> (cardName :> CardEntry(character))]}
  ELSE {[filename |-> base \o ".zip",
         files |-> IF HasQr(character)
                   THEN (QrName(character) :> QrEntry(character))
                          @@ (cardName :> CardEntry(character))
                   ELSE (cardName :> CardEntry(character))]}

CanExport == Cardinality(downloads) < MaxExports

\* CharacterForm.handleExport
handleExport ==
  /\ view = "edit"
  /\ CanExport
  /\ Truthy(formData.name)
  /\ \E exportType \in {"png", "json", "package"}, pngOk \in BOOLEAN :
       LET char == FormCharacter IN
       /\ exportType = "package" => HasQr(char)
       /\ exportType = "json" => pngOk
       /\ downloads' = downloads \cup
            (IF exportType = "package"
             THEN exportCharacterData(char, IF char.importFormat = Str("json")
                                            THEN "json" ELSE "png", TRUE, pngOk)
             ELSE exportCharacterData(char, exportType, FALSE, pngOk))
  /\ UNCHANGED pngVars
  /\ UNCHANGED batchVars
  /\ UNCHANGED <<characters, view, selectedCharacterId, formData, collections,
                 customTags, imageStore, nextId, edits, listOps>>

\* exportQrData(qrList, extraData): the scaffold, the retained object over
\* it, the list over both
exportQrData(qrList, extraData) ==
  LET exportData ==
        Obj(("qrList" :> qrList)
              @@ Spread(IF extraData.t = "undef" THEN EmptyObj ELSE extraData)
              @@ [ version |-> Num(2), name |-> Str("QR Export"),
                   disableSend |-> Bool(FALSE), placeBeforeInput |-> Bool(FALSE),
                   injectInput |-> Bool(FALSE), color |-> Str("rgba(0, 0, 0, 0)"),
                   onlyBorderColor |-> Bool(FALSE) ])
  IN [filename |-> "qr_export_now.json",
      files |-> ("qr_export_now.json" :> [kind |-> "qr", body |-> JsonClone(exportData)])]

\* CharacterForm.handleQrExport
handleQrExport ==
  /\ view = "edit"
  /\ CanExport
  /\ Truthy(formData.qrList) /\ Len(formData.qrList.v) > 0
  /\ downloads' = downloads \cup {exportQrData(formData.qrList, formData.extra_qr_data)}
  /\ UNCHANGED pngVars
  /\ UNCHANGED batchVars
  /\ UNCHANGED <<characters, view, selectedCharacterId, formData, collections,
                 customTags, imageStore, nextId, edits, listOps>>

\* CharacterList.handleSingleExport
handleSingleExport ==
  /\ view = "list"
  /\ CanExport
  /\ \E i \in DOMAIN characters, format \in {"png", "json"}, pngOk \in BOOLEAN :
       /\ format = "json" => pngOk
       /\ downloads' = downloads \cup exportCharacterData(characters[i], format, FALSE, pngOk)
  /\ UNCHANGED pngVars
  /\ UNCHANGED batchVars
  /\ UNCHANGED <<characters, view, selectedCharacterId, formData, collections,
                 customTags, imageStore, nextId, edits, listOps>>

\* exportBulkCharacters: the archive entries of one character
CollectionOf(character, colls) ==
  LET tags == IF Truthy(character.tags) THEN character.tags.v ELSE <<>>
      hits == {i \in DOMAIN tags : SeqHas(colls, tags[i].v)} IN
  IF hits = {} THEN "" ELSE tags[CHOOSE i \in hits : \A j \in hits : i <= j].v

BulkEntry(char, colls, pngOk) ==
  LET given == IF Truthy(char.originalFilename) THEN char.originalFilename.v ELSE ""
      ext == IF char.importFormat = Str("json") THEN "json" ELSE "png"
      filename == IF given = "" THEN SafeName(char.name.v) \o "." \o ext ELSE given
      base == StripExt(filename)
      asJson == char.importFormat = Str("json") \/ ~pngOk
      finalFilename == base \o (IF asJson THEN ".json" ELSE ".png")
      folder == CollectionOf(char, colls)
      prefix == IF folder = "" THEN "" ELSE folder \o "/"
      qrName == IF Truthy(char.qrFileName) THEN char.qrFileName.v ELSE base \o "_qr.json"
  IN IF HasQr(char)
     THEN ((prefix \o base \o "/" \o qrName) :> QrEntry(char))
            @@ ((prefix \o base \o "/" \o finalFilename) :> CardEntry(char))
     ELSE (prefix \o finalFilename) :> CardEntry(char)

\* a later file() call on the same path replaces the earlier entry
RECURSIVE BulkFiles(_, _, _)
BulkFiles(chars, colls, pngOk) ==
  IF Len(chars) = 0 THEN <<>>
  ELSE BulkEntry(chars[Len(chars)], colls, pngOk[Len(chars)])
         @@ BulkFiles(SubSeq(chars, 1, Len(chars) - 1), colls, pngOk)

exportBulkCharacters(chars, colls, pngOk) ==
  [filename |-> "tavern_export_date.zip", files |-> BulkFiles(chars, colls, pngOk)]

\* CharacterList.handleBulkExport over the selected characters
handleBulkExport ==
  /\ view = "list"
  /\ CanExport
  /\ \E sel \in SUBSET (DOMAIN characters) :
       /\ sel # {}
       /\ LET Picked(i) == i \in sel
              idx == SelectSeq([i \in DOMAIN characters |-> i], Picked)
              chars == [k \in DOMAIN idx |-> characters[idx[k]]]
          IN \E pngOk \in [DOMAIN idx -> BOOLEAN] :
               downloads' = downloads \cup {exportBulkCharacters(chars, collections, pngOk)}
  /\ UNCHANGED pngVars
  /\ UNCHANGED batchVars
  /\ UNCHANGED <<characters, view, selectedCharacterId, formData, collections,
                 customTags, imageStore, nextId, edits, listOps>>

(***************************************************************************)
(* CharacterList: list-side updates, through App.handleUpdateCharacter     *)
(***************************************************************************)
handleUpdateCharacter(chars, char) == ReplaceChar(chars, char)

toggleFavorite ==
  /\ view = "list"
  /\ listOps < MaxListOps
  /\ listOps' = listOps + 1
  /\ \E i \in DOMAIN characters :
       characters' = handleUpdateCharacter(characters,
          [characters[i] EXCEPT !.isFavorite = Bool(~Truthy(characters[i].isFavorite)),
                                !.updatedAt = DateNow])
  /\ UNCHANGED pngVars
  /\ UNCHANGED batchVars
  /\ UNCHANGED <<view, selectedCharacterId, formData, collections, customTags,
                 downloads, imageStore, nextId, edits>>

CharTags(c) == IF c.tags.t = "arr" THEN c.tags.v ELSE <<>>

\* allTags: custom tags and the characters' tags that are not collections
AllTags ==
  {customTags[i] : i \in DOMAIN customTags} \cup
  {t \in UNION {{CharTags(characters[i])[j].v : j \in DOMAIN CharTags(characters[i])} :
                  i \in DOMAIN characters} : ~SeqHas(collections, t)}

\* every character that carries oldName gets it replaced by newName
RenameInCharacters(chars, oldName, newName) ==
  [i \in DOMAIN chars |->
     IF SeqHas(CharTags(chars[i]), Str(oldName))
     THEN [chars[i] EXCEPT !.tags =
             Arr([j \in DOMAIN CharTags(chars[i]) |->
                    IF CharTags(chars[i])[j] = Str(oldName) THEN Str(newName)
                    ELSE CharTags(chars[i])[j]])]
     ELSE chars[i]]

RemoveFromCharacters(chars, name) ==
  [i \in DOMAIN chars |->
     IF SeqHas(CharTags(chars[i]), Str(name))
     THEN LET Keep(x) == x # Str(name) IN
          [chars[i] EXCEPT !.tags = Arr(SelectSeq(CharTags(chars[i]), Keep))]
     ELSE chars[i]]

RenameInSeq(a, oldName, newName) ==
  [i \in DOMAIN a |-> IF a[i] = oldName THEN newName ELSE a[i]]

handleAddTag_list ==
  /\ view = "list"
  /\ listOps < MaxListOps
  /\ listOps' = listOps + 1
  /\ \E tag \in TagNames :
       /\ tag \notin AllTags /\ ~SeqHas(collections, tag)
       /\ customTags' = Append(customTags, tag)
  /\ UNCHANGED pngVars
  /\ UNCHANGED batchVars
  /\ UNCHANGED <<characters, view, selectedCharacterId, formData, collections,
                 downloads, imageStore, nextId, edits>>

handleAddCollection ==
  /\ view = "list"
  /\ listOps < MaxListOps
  /\ listOps' = listOps + 1
  /\ \E name \in TagNames :
       /\ ~SeqHas(collections, name) /\ name \notin AllTags
       /\ collections' = Append(collections, name)
  /\ UNCHANGED pngVars
  /\ UNCHANGED batchVars
  /\ UNCHANGED <<characters, view, selectedCharacterId, formData, customTags,
                 downloads, imageStore, nextId, edits>>

handleFinishRenameTag ==
  /\ view = "list"
  /\ listOps < MaxListOps
  /\ listOps' = listOps + 1
  /\ \E editingTag \in AllTags, newName \in TagNames :
       /\ newName # editingTag /\ newName \notin AllTags
       /\ customTags' = RenameInSeq(customTags, editingTag, newName)
       /\ characters' = RenameInCharacters(characters, editingTag, newName)
  /\ UNCHANGED pngVars
  /\ UNCHANGED batchVars
  /\ UNCHANGED <<view, selectedCharacterId, formData, collections, downloads,
                 imageStore, nextId, edits>>

handleFinishRenameCollection ==
  /\ view = "list"
  /\ listOps < MaxListOps
  /\ listOps' = listOps + 1
  /\ \E k \in DOMAIN collections, newName \in TagNames :
       /\ newName # collections[k] /\ ~SeqHas(collections, newName)
       /\ collections' = RenameInSeq(collections, collections[k], newName)
       /\ characters' = RenameInCharacters(characters, collections[k], newName)
  /\ UNCHANGED pngVars
  /\ UNCHANGED batchVars
  /\ UNCHANGED <<view, selectedCharacterId, formData, customTags, downloads,
                 imageStore, nextId, edits>>

handleDeleteTag ==
  /\ view = "list"
  /\ listOps < MaxListOps
  /\ listOps' = listOps + 1
  /\ \E tagToDelete \in AllTags :
       LET Keep(x) == x # tagToDelete IN
       /\ customTags' = SelectSeq(customTags, Keep)
       /\ characters' = RemoveFromCharacters(characters, tagToDelete)
  /\ UNCHANGED pngVars
  /\ UNCHANGED batchVars
  /\ UNCHANGED <<view, selectedCharacterId, formData, collections, downloads,
                 imageStore, nextId, edits>>

handleDeleteCollection ==
  /\ view = "list"
  /\ listOps < MaxListOps
  /\ listOps' = listOps + 1
  /\ \E k \in DOMAIN collections :
       LET Keep(x) == x # collections[k] IN
       /\ collections' = SelectSeq(collections, Keep)
       /\ characters' = RemoveFromCharacters(characters, collections[k])
  /\ UNCHANGED pngVars
  /\ UNCHANGED batchVars
  /\ UNCHANGED <<view, selectedCharacterId, formData, customTags, downloads,
                 imageStore, nextId, edits>>

\* App.handleDeleteCharacter: the avatar blob is released with the record
handleDeleteCharacter ==
  /\ view = "list"
  /\ listOps < MaxListOps
  /\ listOps' = listOps + 1
  /\ \E i \in DOMAIN characters :
       LET Keep(c) == c.id # characters[i].id IN
       /\ characters' = SelectSeq(characters, Keep)
       /\ imageStore' = imageStore \ {characters[i].id}
  /\ UNCHANGED pngVars
  /\ UNCHANGED batchVars
  /\ UNCHANGED <<view, selectedCharacterId, formData, collections, customTags,
                 downloads, nextId, edits>>

(***************************************************************************)
(* PNG files a user can pick                                               *)
(***************************************************************************)
\* chunks per file
MaxChunks == 2

\* the scan never reads the four CRC bytes of a chunk
Chunk(type, data) == U32(Len(data)) \o TextToBytes(type) \o data \o <<0, 0, 0, 0>>

TextChunk(kw, txt) == Chunk("tEXt", TextToBytes(kw) \o <<0>> \o TextToBytes(txt))

\* a zlib stream holding one stored block
ZlibStored(bytes) ==
  <<120, 1, 1, Len(bytes) % 256, Len(bytes) \div 256,
    (65535 - Len(bytes)) % 256, (65535 - Len(bytes)) \div 256>>
    \o bytes \o Adler32(bytes)

\* keyword, NUL, compression method, compressed text
ZtxtChunk(kw, txt) ==
  Chunk("zTXt", TextToBytes(kw) \o <<0, 0>> \o ZlibStored(TextToBytes(txt)))

\* keyword, NUL, compression flag and method, empty language tag and
\* translated keyword, text
ItxtChunk(kw, txt) ==
  Chunk("iTXt", TextToBytes(kw) \o <<0, 0, 0, 0, 0>> \o TextToBytes(txt))

\* the same with compression flag 1 and a deflated text
ItxtDeflated(kw, txt) ==
  Chunk("iTXt", TextToBytes(kw) \o <<0, 1, 0, 0, 0>> \o ZlibStored(TextToBytes(txt)))

\* bytes that are no deflate stream, raw or zlib-wrapped, nor one once two
\* leading and four trailing bytes are taken off: block type 11 is reserved
\* and 7 is no zlib compression method
NotDeflate == <<7, 7, 7, 7, 7, 7, 7>>

ChunkKinds ==
  { Chunk("IHDR", <<0, 0, 0, 1, 0, 0, 0, 1, 8, 6, 0, 0, 0>>),
    TextChunk("chara", encodeBase64Utf8("{\"name\":\"A\"}")),
    TextChunk("ccv3", "{\"name\":\"B\"}"),
    TextChunk("Chara", "{oops"),
    TextChunk("comment", encodeBase64Utf8("{\"x\":1}")),
    TextChunk("comment", "{\"data\":{\"name\":\"D\"}}"),
    TextChunk("note", encodeBase64Utf8("{\"name\":\"C\"}")),
    TextChunk("note", encodeBase64Utf8("{\n\"name\":\"P\"}")),
    TextChunk("chara", encodeBase64Utf8("{\n\"name\":\"Q\"}")),
    TextChunk("chara", "null"),
    ZtxtChunk("chara", "{\"name\":\"Z\"}"),
    Chunk("zTXt", TextToBytes("chara") \o <<0, 0>> \o NotDeflate),
    ItxtChunk("", "{\"name\":\"I\"}"),
    ItxtDeflated("chara", "{\"name\":\"J\"}"),
    Chunk("iTXt", TextToBytes("chara") \o <<0, 1, 0, 0, 0>> \o NotDeflate),
    Chunk("tEXt", TextToBytes("chara")),
    TextChunk("Tavern", "{\"name\":\"T V\"}"),
    TextChunk("", "{\"name\":\"E\"}"),
    ZtxtChunk("", "{\"name\":\"Y\"}"),
    TextChunk("chara", "[1]"),
    Chunk("IEND", <<>>) }

RECURSIVE ChunkSeqs(_)
ChunkSeqs(n) ==
  IF n = 0 THEN {<<>>}
  ELSE ChunkSeqs(n - 1) \cup {body \o c : body \in ChunkSeqs(n - 1), c \in ChunkKinds}

\* how a file ends: whole, its last CRC missing, its last chunk cut short,
\* or stray bytes after the last chunk
Endings ==
  { [cut |-> 0, stray |-> <<>>], [cut |-> 4, stray |-> <<>>],
    [cut |-> 5, stray |-> <<>>], [cut |-> 0, stray |-> <<0, 0, 0>>] }

WellSigned ==
  { PNG_SIG \o SubSeq(body, 1, Len(body) - e.cut) \o e.stray :
      body \in ChunkSeqs(MaxChunks), e \in Endings }

\* files that are not PNG: too short, or one signature byte off
BadlySigned ==
  { SubSeq(PNG_SIG, 1, n) : n \in {0, 7} } \cup
  { [PNG_SIG EXCEPT ![i] = 0] \o TextChunk("chara", encodeBase64Utf8("{\"name\":\"A\"}"))
      : i \in 1..8 }

PngFiles == WellSigned \cup BadlySigned

(***************************************************************************)
(* parseCharacterCard: signature check, chunk scan, fallback, result       *)
(***************************************************************************)
PngInit ==
  /\ uint8Array \in PngFiles
  /\ pc = "signature"
  /\ offset = 8
  /\ iterations = 0
  /\ characterData = Null
  /\ fallbackChunks = <<>>
  /\ thrown = ""

\* no file is being parsed
PngIdle ==
  /\ uint8Array = <<>>
  /\ pc = "idle"
  /\ offset = 8
  /\ iterations = 0
  /\ characterData = Null
  /\ fallbackChunks = <<>>
  /\ thrown = ""

\* faulty variant: only the first four bytes are compared
SignatureDiffersInFour(buffer) ==
  \E i \in 1..4 : IF i > Len(buffer) THEN TRUE ELSE buffer[i] # PNG_SIG[i]

\* uint8Array[i] !== PNG_SIG[i] for some i in 0..7; a missing byte is undefined
SignatureDiffers(buffer) ==
  \E i \in 1..8 : IF i > Len(buffer) THEN TRUE ELSE buffer[i] # PNG_SIG[i]

SignatureMismatch ==
  /\ pc = "signature"
  /\ SignatureDiffers(uint8Array)
  /\ thrown' = "not a PNG"
  /\ pc' = "failed"
  /\ UNCHANGED <<uint8Array, offset, iterations, characterData, fallbackChunks>>
  /\ UNCHANGED appVars
  /\ UNCHANGED batchVars

SignatureOk ==
  /\ pc = "signature"
  /\ ~SignatureDiffers(uint8Array)
  /\ pc' = "scan"
  /\ UNCHANGED <<uint8Array, offset, iterations, characterData, fallbackChunks, thrown>>
  /\ UNCHANGED appVars
  /\ UNCHANGED batchVars

\* header of the chunk at offset
ChunkLength == getUint32(uint8Array, offset)
ChunkType == readText(uint8Array, offset + 4, 4)
DataStart == offset + 8
DataEnd == offset + 8 + ChunkLength

\* the while condition fails, or one of the two breaks is taken
ScanOver ==
  IF offset >= Len(uint8Array) THEN TRUE
  ELSE IF offset + 8 > Len(uint8Array) THEN TRUE
  ELSE DataEnd > Len(uint8Array)

\* faulty variant: a chunk that overruns the buffer is an error
ScanStopStrict ==
  /\ pc = "scan"
  /\ ScanOver
  /\ iterations' = IF offset < Len(uint8Array) THEN iterations + 1 ELSE iterations
  /\ IF offset < Len(uint8Array)
     THEN pc' = "failed" /\ thrown' = "truncated chunk"
     ELSE pc' = "fallback" /\ thrown' = thrown
  /\ UNCHANGED <<uint8Array, offset, characterData, fallbackChunks>>
  /\ UNCHANGED appVars
  /\ UNCHANGED batchVars

ScanStop ==
  /\ pc = "scan"
  /\ ScanOver
  /\ iterations' = IF offset < Len(uint8Array) THEN iterations + 1 ELSE iterations
  /\ pc' = "fallback"
  /\ UNCHANGED <<uint8Array, offset, characterData, fallbackChunks, thrown>>
  /\ UNCHANGED appVars
  /\ UNCHANGED batchVars

\* what one text chunk leaves: txt joins the fallback candidates when it
\* looks like a card; under an accepted keyword a successful parse is
\* assigned to characterData
TakeText(txt, accepted) ==
  /\ fallbackChunks' = IF LooksLikeCard(txt) THEN Append(fallbackChunks, txt)
                       ELSE fallbackChunks
  /\ characterData' = IF accepted /\ ParseCardText(txt).ok THEN ParseCardText(txt).v
                      ELSE characterData

\* one iteration of the scan over a complete chunk of the given type
\* faulty variant: the four CRC bytes are not stepped over
ScanChunkOnCrc(isType) ==
  /\ pc = "scan"
  /\ ~ScanOver
  /\ isType
  /\ offset' = DataEnd
  /\ iterations' = iterations + 1
  /\ UNCHANGED <<uint8Array, pc, thrown>>
  /\ UNCHANGED appVars
  /\ UNCHANGED batchVars

ScanChunk(isType) ==
  /\ pc = "scan"
  /\ ~ScanOver
  /\ isType
  /\ offset' = DataEnd + 4
  /\ iterations' = iterations + 1
  /\ UNCHANGED <<uint8Array, pc, thrown>>
  /\ UNCHANGED appVars
  /\ UNCHANGED batchVars

\* uint8Array.slice(start, end)
Slice(buffer, start, end) == SubSeq(buffer, start + 1, end)

\* kw of a text chunk whose separator is at sep
KeywordOf(buffer, dataStart, sep) ==
  ToLowerCase(readText(buffer, dataStart, sep - dataStart))

\* What a text chunk exposes: found tells whether the branch reaches its
\* text, accepted whether the keyword lets it be parsed as card data
NoText == [found |-> FALSE, accepted |-> FALSE, txt |-> ""]

TextOfTEXt(buffer, dataStart, dataEnd) ==
  LET sep == FindZero(buffer, dataStart, dataEnd) IN
  IF sep = 0 - 1 THEN NoText
  ELSE [ found |-> TRUE,
         accepted |-> KeywordOf(buffer, dataStart, sep) \in KNOWN_KEYS,
         txt |-> readText(buffer, sep + 1, dataEnd - sep - 1) ]

TextOfZTXt(buffer, dataStart, dataEnd) ==
  LET sep == FindZero(buffer, dataStart, dataEnd) IN
  IF sep = 0 - 1 THEN NoText
  ELSE LET txt == decompressZlib(Slice(buffer, sep + 2, dataEnd)) IN
       IF txt = "" THEN NoText
       ELSE [ found |-> TRUE,
              accepted |-> KeywordOf(buffer, dataStart, sep) \in KNOWN_KEYS,
              txt |-> txt ]

\* position after the second zero byte at or after sep + 3, or -1
TextStart(buffer, sep, dataEnd) ==
  LET zeros == {i \in (sep + 3)..(dataEnd - 1) : buffer[i + 1] = 0}
      second == {i \in zeros : Cardinality({j \in zeros : j < i}) = 1}
  IN IF second = {} THEN 0 - 1 ELSE (CHOOSE i \in second : TRUE) + 1

TextOfITXt(buffer, dataStart, dataEnd) ==
  LET sep == FindZero(buffer, dataStart, dataEnd) IN
  IF sep = 0 - 1 THEN NoText
  ELSE LET textStart == TextStart(buffer, sep, dataEnd) IN
       IF textStart = 0 - 1 \/ textStart >= dataEnd THEN NoText
       ELSE LET compFlag == buffer[sep + 2]
                kw == KeywordOf(buffer, dataStart, sep)
                txt == IF compFlag = 1
                       THEN decompressZlib(Slice(buffer, textStart, dataEnd))
                       ELSE readText(buffer, textStart, dataEnd - textStart)
            IN IF txt = "" THEN NoText
               ELSE [ found |-> TRUE,
                      accepted |-> kw \in KNOWN_KEYS \/ kw = "",
                      txt |-> txt ]

ScanTEXt ==
  /\ ScanChunk(ChunkType = "tEXt")
  /\ LET r == TextOfTEXt(uint8Array, DataStart, DataEnd) IN
     IF r.found THEN TakeText(r.txt, r.accepted)
     ELSE UNCHANGED <<characterData, fallbackChunks>>

\* faulty variant: a zTXt chunk without a usable text ends the parse
ScanZTXtFatal ==
  /\ pc = "scan"
  /\ ~ScanOver
  /\ ChunkType = "zTXt"
  /\ offset' = DataEnd + 4
  /\ iterations' = iterations + 1
  /\ LET r == TextOfZTXt(uint8Array, DataStart, DataEnd) IN
     IF r.found THEN TakeText(r.txt, r.accepted) /\ UNCHANGED <<pc, thrown>>
     ELSE /\ pc' = "failed" /\ thrown' = "inflate failed"
          /\ UNCHANGED <<characterData, fallbackChunks>>
  /\ UNCHANGED uint8Array
  /\ UNCHANGED appVars
  /\ UNCHANGED batchVars

ScanZTXt ==
  /\ ScanChunk(ChunkType = "zTXt")
  /\ LET r == TextOfZTXt(uint8Array, DataStart, DataEnd) IN
     IF r.found THEN TakeText(r.txt, r.accepted)
     ELSE UNCHANGED <<characterData, fallbackChunks>>

ScanITXt ==
  /\ ScanChunk(ChunkType = "iTXt")
  /\ LET r == TextOfITXt(uint8Array, DataStart, DataEnd) IN
     IF r.found THEN TakeText(r.txt, r.accepted)
     ELSE UNCHANGED <<characterData, fallbackChunks>>

ScanOtherChunk ==
  /\ ScanChunk(ChunkType \notin {"tEXt", "zTXt", "iTXt"})
  /\ UNCHANGED <<characterData, fallbackChunks>>

\* d.name || d.data?.name
HasName(d) == Truthy(Get(d, "name")) \/ Truthy(Get(Get(d, "data"), "name"))

\* one fallback candidate: the value accepted from it, if any. Reading
\* d.name of null throws like a failed parse does.
FallbackTry(chunk) ==
  LET dec == decodeBase64Utf8(chunk)
      first == IF dec.ok THEN JsonParse(dec.text) ELSE [ok |-> FALSE, v |-> Undef]
      second == JsonParse(chunk)
  IN IF first.ok /\ first.v # Null
     THEN [ok |-> HasName(first.v), v |-> first.v]
     ELSE [ok |-> second.ok /\ second.v # Null /\ HasName(second.v), v |-> second.v]

\* faulty variant: the first candidate that parses is taken, named or not
FallbackPickUnnamed(chunks) ==
  IF Len(chunks) = 0 THEN Null
  ELSE IF ParseCardText(Head(chunks)).ok THEN ParseCardText(Head(chunks)).v
  ELSE Null

\* for (const chunk of fallbackChunks) ... break
RECURSIVE FallbackPick(_)
FallbackPick(chunks) ==
  IF Len(chunks) = 0 THEN Null
  ELSE IF FallbackTry(Head(chunks)).ok THEN FallbackTry(Head(chunks)).v
  ELSE FallbackPick(Tail(chunks))

Fallback ==
  /\ pc = "fallback"
  /\ characterData' = IF ~Truthy(characterData) /\ Len(fallbackChunks) > 0
                      THEN LET d == FallbackPick(fallbackChunks) IN
                           IF d = Null THEN characterData ELSE d
                      ELSE characterData
  /\ pc' = "result"
  /\ UNCHANGED <<uint8Array, offset, iterations, fallbackChunks, thrown>>
  /\ UNCHANGED appVars
  /\ UNCHANGED batchVars

ThrowNoCardData ==
  /\ pc = "result"
  /\ ~Truthy(characterData)
  /\ thrown' = "no character data"
  /\ pc' = "failed"
  /\ UNCHANGED <<uint8Array, offset, iterations, characterData, fallbackChunks>>
  /\ UNCHANGED appVars
  /\ UNCHANGED batchVars

\* crypto.randomUUID, URL.createObjectURL, saveImage, buildCharacter; the
\* list takes the record (App.handleImportCharacter)
ReturnCharacter ==
  /\ pc = "result"
  /\ Truthy(characterData)
  /\ imageStore' = imageStore \cup {nextId}
  /\ characters' = Append(characters,
       buildCharacter(characterData, Str("card.png"), Str("blob:file"), nextId, Str("png")))
  /\ nextId' = nextId + 1
  /\ pc' = "done"
  /\ UNCHANGED <<uint8Array, offset, iterations, characterData, fallbackChunks, thrown>>
  /\ UNCHANGED <<view, selectedCharacterId, formData, collections, customTags,
                 downloads, edits, listOps>>
  /\ UNCHANGED batchVars

(***************************************************************************)
(* JSON.stringify(value): the compact text. The keys of an object are      *)
(* written in the order of their character codes (an object of the model   *)
(* does not keep the order in which its keys were set).                    *)
(***************************************************************************)
RECURSIVE JsonQuoted(_)
JsonQuoted(s) ==
  IF Len(s) = 0 THEN ""
  ELSE LET c == CharAt(s, 1) IN
       (CASE c = "\"" -> "\\\""
          [] c = "\\" -> "\\\\"
          [] c = "\n" -> "\\n"
          [] c = "\t" -> "\\t"
          [] OTHER -> c) \o JsonQuoted(SubSeq(s, 2, Len(s)))

RECURSIVE DigitsOf(_)
DigitsOf(n) ==
  IF n < 0 THEN "-" \o DigitsOf(0 - n)
  ELSE IF n < 10 THEN CharAt(DigitChars, n + 1)
  ELSE DigitsOf(n \div 10) \o CharAt(DigitChars, (n % 10) + 1)

\* a comes before b by character codes
RECURSIVE KeyBefore(_, _)
KeyBefore(a, b) ==
  IF Len(b) = 0 THEN FALSE
  ELSE IF Len(a) = 0 THEN TRUE
  ELSE IF CharAt(a, 1) = CharAt(b, 1)
  THEN KeyBefore(SubSeq(a, 2, Len(a)), SubSeq(b, 2, Len(b)))
  ELSE Ord(CharAt(a, 1)) < Ord(CharAt(b, 1))

RECURSIVE KeysInOrder(_)
KeysInOrder(keys) ==
  IF keys = {} THEN <<>>
  ELSE LET first == CHOOSE k \in keys : \A j \in keys \ {k} : KeyBefore(k, j)
       IN <<first>> \o KeysInOrder(keys \ {first})

RECURSIVE JsonStringify(_)
RECURSIVE StringifyMembers(_, _)
RECURSIVE StringifyElements(_)

JsonStringify(x) ==
  CASE x.t = "str" -> "\"" \o JsonQuoted(x.v) \o "\""
    [] x.t = "num" -> DigitsOf(x.v)
    [] x.t = "bool" -> IF x.v THEN "true" ELSE "false"
    [] x.t = "null" -> "null"
    [] x.t = "arr" -> "[" \o StringifyElements(x.v) \o "]"
    [] x.t = "obj" ->
         "{" \o StringifyMembers(x.v,
                  KeysInOrder({k \in DOMAIN x.v : x.v[k].t # "undef"})) \o "}"

\* a key holding undefined is left out
StringifyMembers(f, keys) ==
  IF Len(keys) = 0 THEN ""
  ELSE "\"" \o JsonQuoted(Head(keys)) \o "\":" \o JsonStringify(f[Head(keys)])
         \o (IF Len(keys) > 1 THEN "," ELSE "")
         \o StringifyMembers(f, Tail(keys))

\* an undefined element is written as null
StringifyElements(a) ==
  IF Len(a) = 0 THEN ""
  ELSE (IF Head(a).t = "undef" THEN "null" ELSE JsonStringify(Head(a)))
         \o (IF Len(a) > 1 THEN "," ELSE "")
         \o StringifyElements(Tail(a))

(***************************************************************************)
(* crc32. A 32-bit word is its four bytes, most significant first, which   *)
(* is how setUint32 writes it.                                             *)
(***************************************************************************)
\* a ^ b on bytes
RECURSIVE BitXor(_, _)
BitXor(a, b) ==
  IF a = 0 THEN b
  ELSE IF b = 0 THEN a
  ELSE ((a + b) % 2) + 2 * BitXor(a \div 2, b \div 2)

Xor32(a, b) == [i \in 1..4 |-> BitXor(a[i], b[i])]

\* c >>> 1
Shr1(c) ==
  << c[1] \div 2, (c[1] % 2) * 128 + c[2] \div 2,
     (c[2] % 2) * 128 + c[3] \div 2, (c[3] % 2) * 128 + c[4] \div 2 >>

\* c >>> 8
Shr8(c) == <<0, c[1], c[2], c[3]>>

\* 0xedb88320
CrcPoly == <<237, 184, 131, 32>>

\* for (k = 0; k < 8; k++) c = c & 1 ? 0xedb88320 ^ (c >>> 1) : c >>> 1
RECURSIVE CrcEntry(_, _)
CrcEntry(c, k) ==
  IF k = 0 THEN c
  ELSE CrcEntry(IF c[4] % 2 = 1 THEN Xor32(CrcPoly, Shr1(c)) ELSE Shr1(c), k - 1)

crcTable == [n \in 0..255 |-> CrcEntry(<<0, 0, 0, n>>, 8)]

\* crc = crcTable[(crc ^ buf[i]) & 0xff] ^ (crc >>> 8), for i from first to
\* last (the range is halved, left half first, to keep the evaluation shallow)
RECURSIVE CrcLoop(_, _, _, _)
CrcLoop(buf, first, last, crc) ==
  IF first > last THEN crc
  ELSE IF first = last
  THEN Xor32(crcTable[BitXor(crc[4], buf[first])], Shr8(crc))
  ELSE LET mid == (first + last) \div 2
           left == CrcLoop(buf, first, mid, crc)
       IN IF left \in Seq(Nat) THEN CrcLoop(buf, mid + 1, last, left) ELSE left

crc32(buf) ==
  Xor32(CrcLoop(buf, 1, Len(buf), <<255, 255, 255, 255>>), <<255, 255, 255, 255>>)

(***************************************************************************)
(* createTavernPng: the card chunk spliced into the rasterized avatar      *)
(***************************************************************************)
\* the bytes "tEXt"
TEXT_TYPE == <<116, 69, 88, 116>>

\* faulty variant: the checksum covers the payload but not the type bytes
TavernChunkCrcOfPayload(character) ==
  LET payload == TextToBytes("chara") \o <<0>>
                   \o TextToBytes(encodeBase64Utf8(JsonStringify(buildExportData(character))))
  IN U32(Len(payload)) \o TEXT_TYPE \o payload \o crc32(payload)

\* chunkBuffer: length, type, keyword, NUL, base64 text, CRC
TavernChunk(character) ==
  LET base64Data == encodeBase64Utf8(JsonStringify(buildExportData(character)))
      keywordBytes == TextToBytes("chara")
      textBytes == TextToBytes(base64Data)
      chunkLength == Len(keywordBytes) + 1 + Len(textBytes)
      crcInput == TEXT_TYPE \o keywordBytes \o <<0>> \o textBytes
  IN U32(chunkLength) \o crcInput \o crc32(crcInput)

\* iendOffset: 4 before the first position i < length - 7 that holds the
\* bytes 0x49 0x45 0x4e 0x44, or -1. (A rasterized image starts with the
\* PNG signature, so that position is never below 8.)
IendOffset(buffer) ==
  LET hits == {i \in 0..(Len(buffer) - 8) :
                 /\ buffer[i + 1] = 73 /\ buffer[i + 2] = 69
                 /\ buffer[i + 3] = 78 /\ buffer[i + 4] = 68}
  IN IF hits = {} THEN 0 - 1
     ELSE (CHOOSE i \in hits : \A j \in hits : i <= j) - 4

\* the bytes of the Blob createTavernPng returns for a rasterized avatar;
\* ok is FALSE where it throws
createTavernPng(buffer, character) ==
  LET chunkBuffer == TavernChunk(character)
      iendOffset == IendOffset(buffer)
  IN IF iendOffset = 0 - 1 THEN [ok |-> FALSE, bytes |-> <<>>]
     ELSE [ok |-> TRUE,
           bytes |-> SubSeq(buffer, 1, iendOffset) \o chunkBuffer
                       \o SubSeq(buffer, iendOffset + 1, Len(buffer))]

(***************************************************************************)
(* parseCharacterJson on the text of a picked .json file                   *)
(***************************************************************************)
\* bodies of the cards written as text: named, unnamed, empty name, and
\* lorebooks whose entries are not a list of objects
TextBodies ==
  { Obj([name |-> Str("N"), lore |-> Str("kept")]),
    Obj([description |-> Str("d")]),
    Obj([name |-> Str("")]),
    Obj([name |-> Str("B"), character_book |->
           Obj([entries |-> Arr(<<LoreEntry(<<Str("elf")>>, "Elves")>>)])]),
    Obj([name |-> Str("B"), character_book |-> Obj([entries |-> Num(5)])]),
    Obj([name |-> Str("B"), character_book |-> Obj([entries |-> Arr(<<Null>>)])]),
    Obj([name |-> Str("B"), character_book |-> Obj([entries |-> EmptyArr])]) }

\* texts that are JSON
ValidJsonTexts ==
  {"null", " null ", "5", "0", "\"Aria\"", "\"\"", "true", "false", "[]", "[1]", "{}",
   "{\"name\": null}", "[{\"name\":\"N\"}]"}
    \cup {JsonStringify(r) : r \in UNION {Wrappings(b) : b \in TextBodies}}

\* texts that are not
InvalidJsonTexts ==
  {"", "{", "nul", "{\"name\":}", "{name:1}", "[1,]", "{\"a\":1}x", "'a'", "undefined"}

JsonTexts == ValidJsonTexts \cup InvalidJsonTexts

JsonTextInit ==
  /\ AppInit
  /\ collections = <<>>
  /\ uint8Array \in {TextToBytes(t) : t \in JsonTexts}
  /\ pc = "text"
  /\ offset = 8
  /\ iterations = 0
  /\ characterData = Null
  /\ fallbackChunks = <<>>
  /\ thrown = ""

\* data = JSON.parse(text)
ParseJsonText ==
  /\ pc = "text"
  /\ \E text \in {BytesToText(uint8Array)} :
       \E data \in {JsonParse(text)} :
         /\ data.ok
         /\ characterData' = data.v
  /\ pc' = "json"
  /\ UNCHANGED <<uint8Array, offset, iterations, fallbackChunks, thrown>>
  /\ UNCHANGED appVars
  /\ UNCHANGED batchVars

\* catch { throw new Error("Invalid JSON file") }
InvalidJson ==
  /\ pc = "text"
  /\ \E text \in {BytesToText(uint8Array)} : ~JsonParse(text).ok
  /\ thrown' = "Invalid JSON file"
  /\ pc' = "failed"
  /\ UNCHANGED <<uint8Array, offset, iterations, characterData, fallbackChunks>>
  /\ UNCHANGED appVars
  /\ UNCHANGED batchVars

\* buildCharacter raises; handleFileChange counts the file as failed
BuildCharacterThrows ==
  /\ pc = "json"
  /\ BuildThrows(characterData)
  /\ thrown' = "TypeError"
  /\ pc' = "failed"
  /\ UNCHANGED <<uint8Array, offset, iterations, characterData, fallbackChunks>>
  /\ UNCHANGED appVars
  /\ UNCHANGED batchVars

(***************************************************************************)
(* handleFileChange over a batch of picked files                           *)
(***************************************************************************)
\* files of one batch at most
MaxBatch == 3

\* the files that can be picked: content is what the file decodes to, Undef
\* for a file that holds no card (text that is not JSON, PNG without card)
BatchFiles ==
  { [name |-> "aria.json", content |-> CardAria],
    [name |-> "KAEL.JSON", content |-> CardKael],
    [name |-> "bad.json", content |-> Undef],
    [name |-> "null.json", content |-> Null],
    [name |-> "guide.png", content |-> CardGuide],
    [name |-> "plain.png", content |-> Undef],
    [name |-> "notes.txt", content |-> CardMira] }

Batches == UNION {[1..n -> BatchFiles] : n \in 1..MaxBatch}

isPng(file) == EndsWith(ToLowerCase(file.name), ".png")
isJson(file) == EndsWith(ToLowerCase(file.name), ".json")

\* parseCharacterCard / parseCharacterJson reject the file
ParseFails(file) == file.content.t = "undef" \/ BuildThrows(file.content)

\* err.message of the rejection
ParseError(file) ==
  IF file.content.t = "undef"
  THEN IF isPng(file) THEN "no character data" ELSE "Invalid JSON file"
  ELSE "TypeError"

BatchInit ==
  /\ AppInit
  /\ collections = <<>>
  /\ PngIdle

\* the handler starts: the counters are reset, the batch is announced
handleFileChange ==
  /\ pc = "idle"
  /\ \E files \in Batches :
       /\ fileArray' = files
       /\ importingCount' = Len(files)
  /\ fileIndex' = 1
  /\ successCount' = 0
  /\ failCount' = 0
  /\ failedFiles' = <<>>
  /\ pc' = "batch"
  /\ UNCHANGED <<uint8Array, offset, iterations, characterData, fallbackChunks, thrown>>
  /\ UNCHANGED appVars

\* the file the loop is at
BatchFile == fileArray[fileIndex]

InLoop == pc = "batch" /\ fileIndex <= Len(fileArray)

\* if (!isPng && !isJson) continue
BatchSkipFile ==
  /\ InLoop
  /\ ~isPng(BatchFile) /\ ~isJson(BatchFile)
  /\ fileIndex' = fileIndex + 1
  /\ UNCHANGED <<fileArray, successCount, failCount, failedFiles, importingCount>>
  /\ UNCHANGED pngVars
  /\ UNCHANGED appVars

\* the file parses: onImport(char), successCount++
BatchImportFile ==
  /\ InLoop
  /\ isPng(BatchFile) \/ isJson(BatchFile)
  /\ ~ParseFails(BatchFile)
  /\ characters' = Append(characters,
       IF isPng(BatchFile) THEN CardFromPng(BatchFile, nextId)
       ELSE parseCharacterJson(BatchFile, nextId))
  /\ imageStore' = IF isPng(BatchFile) THEN imageStore \cup {nextId} ELSE imageStore
  /\ nextId' = nextId + 1
  /\ successCount' = successCount + 1
  /\ fileIndex' = fileIndex + 1
  /\ UNCHANGED <<fileArray, failCount, failedFiles, importingCount>>
  /\ UNCHANGED pngVars
  /\ UNCHANGED <<view, selectedCharacterId, formData, collections, customTags,
                 downloads, edits, listOps>>

\* faulty variant of the catch: the failure ends the loop
BatchFileFailsAborting ==
  /\ InLoop
  /\ isPng(BatchFile) \/ isJson(BatchFile)
  /\ ParseFails(BatchFile)
  /\ failCount' = failCount + 1
  /\ failedFiles' = Append(failedFiles, BatchFile.name \o ": " \o ParseError(BatchFile))
  /\ fileIndex' = Len(fileArray) + 1
  /\ UNCHANGED <<fileArray, successCount, importingCount>>
  /\ UNCHANGED pngVars
  /\ UNCHANGED appVars

\* the file is rejected: failCount++, its message is kept, the loop goes on
BatchFileFails ==
  /\ InLoop
  /\ isPng(BatchFile) \/ isJson(BatchFile)
  /\ ParseFails(BatchFile)
  /\ failCount' = failCount + 1
  /\ failedFiles' = Append(failedFiles, BatchFile.name \o ": " \o ParseError(BatchFile))
  /\ fileIndex' = fileIndex + 1
  /\ UNCHANGED <<fileArray, successCount, importingCount>>
  /\ UNCHANGED pngVars
  /\ UNCHANGED appVars

\* after the loop: setImportingCount(0)
BatchEnd ==
  /\ pc = "batch"
  /\ fileIndex > Len(fileArray)
  /\ importingCount' = 0
  /\ pc' = "batchdone"
  /\ UNCHANGED <<fileArray, fileIndex, successCount, failCount, failedFiles>>
  /\ UNCHANGED <<uint8Array, offset, iterations, characterData, fallbackChunks, thrown>>
  /\ UNCHANGED appVars

(***************************************************************************)
(* handleQrFileImport on the text of a picked quick-reply file             *)
(***************************************************************************)
QrWave == Obj([id |-> Num(2), label |-> Str("Wave"), message |-> Str("/wave")])

\* parsed values of the files: objects with and without the two list keys,
\* bare arrays, and values that are neither
QrValues ==
  { Obj(ql @@ slots @@ color @@ version) :
      ql \in Opt("qrList", {EmptyArr, Arr(<<QrGreet>>), Str("x"), Null, EmptyObj}),
      slots \in Opt("quickReplySlots", {Arr(<<QrWave>>), Num(5)}),
      color \in Opt("color", {Str("red")}),
      version \in Opt("version", {Num(2)}) }
    \cup {EmptyArr, Arr(<<QrGreet>>), Arr(<<Num(1)>>), Null, Num(5), Str("x"), Bool(TRUE)}

QrTexts == {JsonStringify(v) : v \in QrValues} \cup InvalidJsonTexts

\* the form is open on a record imported from a card file
QrInit ==
  /\ BatchIdle
  /\ characters \in {<<parseCharacterJson(f, 1)>> : f \in CardFiles}
  /\ view = "edit"
  /\ selectedCharacterId = 1
  /\ formData = characters[1]
  /\ collections = <<>>
  /\ customTags = <<>>
  /\ downloads = {}
  /\ imageStore = {}
  /\ nextId = 2
  /\ edits = 0
  /\ listOps = 0
  /\ uint8Array \in {TextToBytes(t) : t \in QrTexts}
  /\ pc = "qrtext"
  /\ offset = 8
  /\ iterations = 0
  /\ characterData = Null
  /\ fallbackChunks = <<>>
  /\ thrown = ""

\* parseQrFile returns; the form takes the list, the raw object and the name
QrFileBound ==
  /\ pc = "qrtext"
  /\ \E text \in {BytesToText(uint8Array)} :
       \E data \in {JsonParse(text)} :
         /\ data.ok
         /\ QrRecognized(data.v)
         /\ formData' = [formData EXCEPT !.qrList = parseQrFile(data.v).list,
                                         !.extra_qr_data = parseQrFile(data.v).raw,
                                         !.qrFileName = Str("picked.json")]
  /\ pc' = "done"
  /\ UNCHANGED <<uint8Array, offset, iterations, characterData, fallbackChunks, thrown>>
  /\ UNCHANGED <<characters, view, selectedCharacterId, collections, customTags,
                 downloads, imageStore, nextId, edits, listOps>>
  /\ UNCHANGED batchVars

\* parseQrFile throws (JSON.parse, or no list found); the form alerts
QrFileRejected ==
  /\ pc = "qrtext"
  /\ \E text \in {BytesToText(uint8Array)} :
       \E data \in {JsonParse(text)} :
         IF data.ok THEN ~QrRecognized(data.v) ELSE TRUE
  /\ thrown' = "QR parse failed"
  /\ pc' = "failed"
  /\ UNCHANGED <<uint8Array, offset, iterations, characterData, fallbackChunks>>
  /\ UNCHANGED appVars
  /\ UNCHANGED batchVars

(***************************************************************************)
(* Export of a record as PNG and import of the file written                *)
(***************************************************************************)
\* records imported from a PNG card and not edited since
ImportedRecords ==
  { CardFromPng([name |-> "card.png", content |-> c], 1) :
      c \in {CardGuide, CardAria, CardKael, CardMira} }

\* image data of the rasterized avatar; some hold the bytes 0x49 0x45 0x4e 0x44
IdatPayloads ==
  { <<8, 29, 1, 2, 0, 253, 255>>,
    <<120, 1, 99>>,
    <<8, 29, 73, 69, 78, 68, 0, 9>>,
    <<73, 69, 78, 68>> }

\* how the buffer of canvas.toBlob ends: with an IEND chunk, without one, or
\* with an IEND chunk that lost its CRC
RasterEndings ==
  { Chunk("IEND", <<>>), <<>>, SubSeq(Chunk("IEND", <<>>), 1, 8) }

Rasters ==
  { PNG_SIG \o Chunk("IHDR", <<0, 0, 0, 1, 0, 0, 0, 1, 8, 6, 0, 0, 0>>)
      \o Chunk("IDAT", d) \o e : d \in IdatPayloads, e \in RasterEndings }

\* createTavernPng is called for the one record of the list; uint8Array is
\* the rasterized avatar
EncodeInit ==
  /\ BatchIdle
  /\ characters \in {<<r>> : r \in ImportedRecords}
  /\ view = "list"
  /\ selectedCharacterId = 0
  /\ formData = BlankForm
  /\ collections = <<>>
  /\ customTags = <<>>
  /\ downloads = {}
  /\ imageStore = {1}
  /\ nextId = 2
  /\ edits = 0
  /\ listOps = 0
  /\ uint8Array \in Rasters
  /\ pc = "encode"
  /\ offset = 8
  /\ iterations = 0
  /\ characterData = Null
  /\ fallbackChunks = <<>>
  /\ thrown = ""

\* img.onerror: the avatar does not load
LoadImageFails ==
  /\ pc = "encode"
  /\ pc' = "failed"
  /\ thrown' = "image load failed"
  /\ UNCHANGED <<uint8Array, offset, iterations, characterData, fallbackChunks>>
  /\ UNCHANGED appVars
  /\ UNCHANGED batchVars

\* createTavernPng(character); the file it returns is then picked for import
EncodePng ==
  /\ pc = "encode"
  /\ LET made == createTavernPng(uint8Array, characters[1]) IN
     IF made.ok
     THEN uint8Array' = made.bytes /\ pc' = "signature" /\ thrown' = thrown
     ELSE uint8Array' = uint8Array /\ pc' = "failed" /\ thrown' = "no IEND chunk"
  /\ UNCHANGED <<offset, iterations, characterData, fallbackChunks>>
  /\ UNCHANGED appVars
  /\ UNCHANGED batchVars

(***************************************************************************)
(* Specification of the card manager                                       *)
(***************************************************************************)
Init == AppInit /\ PngIdle

vars == <<appVars, pngVars, batchVars>>

\* Editing runs: import, the form's handlers, save, and the list-side updates
Next ==
  \/ ImportJsonFile(MaxChars)
  \/ SelectCharacter
  \/ SetTextField
  \/ handleAddTag
  \/ removeTag
  \/ addAltGreeting
  \/ updateAltGreeting
  \/ removeAltGreeting
  \/ setAsMain
  \/ createBook
  \/ addEntry
  \/ deleteEntry
  \/ updateEntry
  \/ handleQrFileImport
  \/ handleClearQr
  \/ handleAvatarChange
  \/ handleSubmit
  \/ onCancel
  \/ toggleFavorite
  \/ handleAddTag_list
  \/ handleAddCollection
  \/ handleFinishRenameTag
  \/ handleFinishRenameCollection
  \/ handleDeleteTag
  \/ handleDeleteCollection
  \/ handleDeleteCharacter

Spec == Init /\ [][Next]_vars

\* Export and re-import runs: files written by the exports are imported again
NextTrip ==
  \/ ImportJsonFile(MaxTripChars)
  \/ ImportPngFile
  \/ SelectCharacter
  \/ onCancel
  \/ handleExport
  \/ handleSingleExport
  \/ handleBulkExport

SpecTrip == Init /\ [][NextTrip]_vars

\* Reading one picked PNG file
InitPng == AppInit /\ collections = <<>> /\ PngInit

NextPng ==
  \/ SignatureMismatch
  \/ SignatureOk
  \/ ScanTEXt
  \/ ScanZTXt
  \/ ScanITXt
  \/ ScanOtherChunk
  \/ ScanStop
  \/ Fallback
  \/ ThrowNoCardData
  \/ ReturnCharacter

SpecPng == InitPng /\ [][NextPng]_vars

\* Writing one record as PNG and reading the file back
NextEncode ==
  \/ LoadImageFails
  \/ EncodePng
  \/ SignatureOk
  \/ ScanTEXt
  \/ ScanOtherChunk
  \/ ScanStop
  \/ Fallback
  \/ ThrowNoCardData
  \/ ReturnCharacter

SpecEncode == EncodeInit /\ [][NextEncode]_vars

\* Reading one picked .json file
NextJson == ImportPickedJson

\* Importing one batch of picked files
NextBatch ==
  \/ handleFileChange
  \/ BatchSkipFile
  \/ BatchImportFile
  \/ BatchFileFails
  \/ BatchEnd

SpecBatch == BatchInit /\ [][NextBatch]_vars

\* Binding one picked quick-reply file in the form
NextQr ==
  \/ QrFileBound
  \/ QrFileRejected
  \/ handleQrExport
  \/ handleExport

SpecQr == QrInit /\ [][NextQr]_vars

\* Reading one picked .json file from its text
NextJsonText ==
  \/ ParseJsonText
  \/ InvalidJson
  \/ ImportPickedJson
  \/ BuildCharacterThrows

SpecJsonText == JsonTextInit /\ [][NextJsonText]_vars

SpecJson == JsonInit /\ [][NextJson]_vars

(***************************************************************************)
(* Properties of the normalization layer                                   *)
(***************************************************************************)
\* export -> import repetitions followed from each record
MaxTrips == 3

\* the keys of editedFields in buildExportData
OverlayKeys ==
  { "name", "description", "personality", "first_mes", "alternate_greetings",
    "scenario", "mes_example", "system_prompt", "post_history_instructions",
    "creator_notes", "creator", "character_version", "tags", "extensions",
    "character_book" }

\* the data body of the export of a record, as written to a file and read back
ExportBody(c) == Get(ExportFile(c), "data")

\* importing the export of c again: the file keeps its name, id and format
Reimport(c) ==
  buildCharacter(ExportFile(c), c.originalFilename, c.avatarUrl, c.id, c.importFormat)

\* n export -> import repetitions
RECURSIVE Trips(_, _)
Trips(c, n) == IF n = 0 THEN c ELSE Trips(Reimport(c), n - 1)

UnknownKeys(c) == DOMAIN Spread(c.rawData) \ OverlayKeys

\* C1 - Unknown-field preservation: for every record of the list and every key
\* K of its rawData that buildExportData does not overlay, the export body
\* carries K with rawData's value, and after 1..MaxTrips export -> import
\* repetitions the record's rawData still carries K with that value.
C1_UnknownFieldsPreserved ==
  \A i \in DOMAIN characters :
    LET c == characters[i] IN
    \A K \in UnknownKeys(c) :
      /\ Get(ExportBody(c), K) = c.rawData.v[K]
      /\ \A n \in 1..MaxTrips :
           /\ Has(Trips(c, n).rawData, K)
           /\ Trips(c, n).rawData.v[K] = c.rawData.v[K]

\* C1 witness: a record imported from a file an export wrote (its rawData
\* holds alternate_greetings, which only the overlay adds to Aria's card)
\* still carries the unknown key talkativeness of the original card.
C1_Witness ==
  \E i \in DOMAIN characters :
    /\ Has(characters[i].rawData, "alternate_greetings")
    /\ Get(characters[i].rawData, "talkativeness") = Str("0.5")
    /\ characters[i].id > 1

\* the typed fields of a record that buildCharacter reads back from a card
TypedFields ==
  { "name", "description", "personality", "firstMessage", "alternate_greetings",
    "scenario", "tags", "creator_notes", "mes_example", "system_prompt",
    "post_history_instructions", "creator", "character_version", "extensions" }

\* C2 - Typed-field round trip: for every record of the list, whatever keys
\* its rawData holds and whatever values its typed fields have, exporting it
\* and importing the export again, 1..MaxTrips times, yields a record whose
\* typed fields equal the record's current values.
C2_TypedRoundTrip ==
  \A i \in DOMAIN characters :
    \A f \in TypedFields, n \in 1..MaxTrips :
      Trips(characters[i], n)[f] = characters[i][f]

\* typed field of the record -> key of the export body
ExportKey ==
  [ name |-> "name", description |-> "description", personality |-> "personality",
    firstMessage |-> "first_mes", alternate_greetings |-> "alternate_greetings",
    scenario |-> "scenario", tags |-> "tags", creator_notes |-> "creator_notes",
    mes_example |-> "mes_example", system_prompt |-> "system_prompt",
    post_history_instructions |-> "post_history_instructions",
    creator |-> "creator", character_version |-> "character_version",
    extensions |-> "extensions" ]

\* the lorebook as the card format carries it: the editor's keysInput helper
\* is not part of an entry's value
BookValue(c) ==
  IF Truthy(c.character_book) THEN ExportBook(c.character_book) ELSE Undef

\* C3 - Merge precedence: for each typed/editable field (name, description,
\* personality, first message, alternate greetings, scenario, tags, notes /
\* system-prompt / creator fields, extensions map, quick-reply action list,
\* lorebook), the export body of every record of the list holds the record's
\* current value under that field's export key, whatever rawData holds there.
\* (A record without quick replies whose body has no qrList key is not
\* counted as a difference.)
C3_MergePrecedence ==
  \A i \in DOMAIN characters :
    LET c == characters[i] IN
    /\ \A f \in DOMAIN ExportKey : Get(ExportBody(c), ExportKey[f]) = c[f]
    /\ Get(ExportBody(c), "character_book") = BookValue(c)
    /\ (HasQr(c) \/ Has(ExportBody(c), "qrList")) =>
         Get(ExportBody(c), "qrList") = c.qrList

\* the version-2 envelope around a data body
IsEnvelope(x) ==
  /\ x.t = "obj"
  /\ DOMAIN x.v = {"spec", "spec_version", "data"}
  /\ x.v["spec"] = Str("chara_card_v2")
  /\ x.v["spec_version"] = Str("2.0")
  /\ x.v["data"].t = "obj"

\* an object buildCharacter would unwrap as a version-2 envelope
LooksWrapped(x) == Get(x, "spec") = Str("chara_card_v2") /\ Truthy(Get(x, "data"))

\* the card files of the downloads: plain files and archive entries
WrittenCards ==
  UNION { {d.files[p].body : p \in {q \in DOMAIN d.files : d.files[q].kind = "card"}} :
          d \in downloads }

\* C4 - Envelope normalization: every card written by an export (plain file,
\* package or bulk archive entry), and the export every record of the list
\* would produce, is exactly {spec: "chara_card_v2", spec_version: "2.0",
\* data: body}, whichever shape the source had, and body is never itself such
\* an envelope.
C4_EnvelopeNormalized ==
  /\ \A card \in WrittenCards : IsEnvelope(card) /\ ~LooksWrapped(Get(card, "data"))
  /\ \A i \in DOMAIN characters :
       /\ IsEnvelope(ExportFile(characters[i]))
       /\ ~LooksWrapped(ExportBody(characters[i]))
       /\ ~LooksWrapped(characters[i].rawData)

\* C4 witness: two exports were written, one of them from a record that was
\* itself imported from the other export of an unmarked nested card (Mira).
C4_Witness ==
  \E d1, d2 \in downloads :
    /\ d1 # d2
    /\ \E i \in DOMAIN characters, p \in DOMAIN d1.files, q \in DOMAIN d2.files :
         /\ d1.files[p].kind = "card" /\ d2.files[q].kind = "card"
         /\ characters[i].rawData = Get(d1.files[p].body, "data")
         /\ Get(characters[i].rawData, "name") = Str("Mira")
         /\ d2.files[q].body = ExportFile(characters[i])

\* C5 - rawData is an immutable snapshot: no step (form edit, save, favorite
\* toggle, tag or collection rename / delete, import or delete of another
\* record) changes the rawData of a record that stays in the list, so it
\* always equals the rawData the record had when it was imported.
C5_RawDataImmutable ==
  [][\A i \in DOMAIN characters, j \in DOMAIN characters' :
       characters[i].id = characters'[j].id =>
         characters'[j].rawData = characters[i].rawData]_vars

\* C5 witness: a record whose name was edited and saved, so that it differs
\* from rawData's name, and which a list-side update has touched since, still
\* holds the unwrapped content of the card file it was imported from.
C5_Witness ==
  \E i \in DOMAIN characters, file \in CardFiles :
    /\ characters[i].name = Str("Edited")
    /\ Get(characters[i].rawData, "name") # characters[i].name
    /\ characters[i].isFavorite = Bool(TRUE)
    /\ characters[i].rawData = Unwrap(file.content)

\* Character fields that types.ts marks as app-only
AppOnlyKeys ==
  { "id", "avatarUrl", "originalFilename", "importFormat", "importDate",
    "updatedAt", "isFavorite", "folder", "qrFileName" }

\* C6 - App-only metadata is never exported: for every record of the list, an
\* app-only key occurs in the body built by buildExportData only if it is a
\* key of the record's rawData, and then with rawData's value.
C6_AppOnlyNotExported ==
  \A i \in DOMAIN characters :
    LET c == characters[i]
        body == Get(buildExportData(c), "data") IN
    \A k \in DOMAIN body.v \cap AppOnlyKeys :
      Has(c.rawData, k) /\ body.v[k] = c.rawData.v[k]

\* C6 witness: a record marked favorite (the toggle sets isFavorite and
\* stamps updatedAt) whose card carried a key named folder: the body has
\* folder, from rawData, and neither isFavorite nor updatedAt.
C6_Witness ==
  \E i \in DOMAIN characters :
    LET c == characters[i]
        body == Get(buildExportData(c), "data") IN
    /\ c.isFavorite = Bool(TRUE)
    /\ c.updatedAt = DateNow
    /\ Get(body, "folder") = Str("heroes")
    /\ ~Has(body, "isFavorite") /\ ~Has(body, "updatedAt")

\* C30 - Collections and tags stay disjoint: after any sequence of add-tag,
\* add-collection, rename-tag, rename-collection, delete-tag and
\* delete-collection operations in the character list, no name is at once a
\* member of collections and of the tag list allTags.
C30_CollectionsTagsDisjoint ==
  \A k \in DOMAIN collections : collections[k] \notin AllTags

(***************************************************************************)
(* Properties of parseCharacterCard                                        *)
(***************************************************************************)
\* The complete chunks of a file in byte order: each is wholly inside the
\* buffer up to the end of its data
RECURSIVE CompleteChunks(_, _)
CompleteChunks(buffer, off) ==
  IF off + 8 > Len(buffer) THEN <<>>
  ELSE LET dataEnd == off + 8 + getUint32(buffer, off) IN
       IF dataEnd > Len(buffer) THEN <<>>
       ELSE <<[type |-> readText(buffer, off + 4, 4), dataStart |-> off + 8,
               dataEnd |-> dataEnd]>> \o CompleteChunks(buffer, dataEnd + 4)

\* the file ends inside a chunk: bytes are left after its last complete chunk
Truncated(buffer) ==
  LET cs == CompleteChunks(buffer, 8)
      last == IF Len(cs) = 0 THEN 8 ELSE cs[Len(cs)].dataEnd + 4
  IN last < Len(buffer)

TextOf(buffer, c) ==
  CASE c.type = "tEXt" -> TextOfTEXt(buffer, c.dataStart, c.dataEnd)
    [] c.type = "zTXt" -> TextOfZTXt(buffer, c.dataStart, c.dataEnd)
    [] c.type = "iTXt" -> TextOfITXt(buffer, c.dataStart, c.dataEnd)
    [] OTHER -> NoText

\* the texts of the complete text chunks, in byte order
Texts(buffer) ==
  LET cs == CompleteChunks(buffer, 8)
      Found(r) == r.found
  IN SelectSeq([i \in DOMAIN cs |-> TextOf(buffer, cs[i])], Found)

\* the values of the known-keyword chunks that parse, in byte order
KnownResults(buffer) ==
  LET Parses(r) == r.accepted /\ ParseCardText(r.txt).ok
      hits == SelectSeq(Texts(buffer), Parses)
  IN [i \in DOMAIN hits |-> ParseCardText(hits[i].txt).v]

\* the values of the fallback candidates that parse, base64 first and then
\* raw JSON, to an object with a name, in byte order
NamedCandidates(buffer) ==
  LET Named(r) == /\ LooksLikeCard(r.txt)
                  /\ ParseCardText(r.txt).ok
                  /\ ParseCardText(r.txt).v.t = "obj"
                  /\ HasName(ParseCardText(r.txt).v)
      hits == SelectSeq(Texts(buffer), Named)
  IN [i \in DOMAIN hits |-> ParseCardText(hits[i].txt).v]

ScanDone == pc \in {"fallback", "result", "done", "failed"} /\ thrown # "not a PNG"

\* the values a finished parse returned
Returned == IF pc = "done" THEN characters[Len(characters)].rawData ELSE Null

\* C7 - First known-keyword chunk wins: once the scan is over, if several
\* text chunks with known keywords parsed as JSON, characterData is the value
\* of the first of them in byte order, and that is what the parse returns.
C7_FirstKnownChunkWins ==
  (ScanDone /\ Len(KnownResults(uint8Array)) > 0) =>
    /\ characterData = KnownResults(uint8Array)[1]
    /\ pc = "done" => Returned = Unwrap(KnownResults(uint8Array)[1])

\* C8 as stated - Fallback acceptance: the candidates are consulted only when
\* the scan left no result of a known-keyword chunk; the first that parses to
\* an object with a name is then taken, unnamed ones are skipped; and a file
\* whose only text chunk has an unrecognized keyword and parses to an object
\* with a top-level name is decoded successfully.
OnlyTextNamed(buffer) ==
  /\ Len(Texts(buffer)) = 1
  /\ ~Texts(buffer)[1].accepted
  /\ ParseCardText(Texts(buffer)[1].txt).ok
  /\ Truthy(Get(ParseCardText(Texts(buffer)[1].txt).v, "name"))

\* the step after the scan: a result the scan left is kept; without one the
\* first named candidate of the file, if any, becomes the result
FallbackRule ==
  pc = "fallback" =>
    characterData' =
      IF Truthy(characterData) THEN characterData
      ELSE IF Len(NamedCandidates(uint8Array)) > 0 THEN NamedCandidates(uint8Array)[1]
      ELSE characterData

OnlyTextDecoded ==
  /\ pc = "done"
  /\ Returned = Unwrap(ParseCardText(Texts(uint8Array)[1].txt).v)

C10_SignatureChecked ==
  (Len(uint8Array) < 8 \/ SubSeq(uint8Array, 1, 8) # PNG_SIG) =>
    /\ pc \in {"signature", "failed"}
    /\ pc = "signature" => ENABLED SignatureMismatch /\ ~ENABLED SignatureOk
    /\ pc = "failed" => thrown = "not a PNG"
    /\ offset = 8 /\ characterData = Null /\ fallbackChunks = <<>>
    /\ nextId = 1 /\ imageStore = {} /\ characters = <<>>

\* C10 witness: a file whose last signature byte is off, with a card chunk
\* behind it, has failed as not a PNG.
C10_Witness ==
  /\ pc = "failed" /\ thrown = "not a PNG"
  /\ Len(uint8Array) > 16
  /\ SubSeq(uint8Array, 1, 7) = SubSeq(PNG_SIG, 1, 7)
  /\ Len(KnownResults(uint8Array)) = 1

\* the values of the known-keyword chunks that parsed into card data
CardResults(buffer) == SelectSeq(KnownResults(buffer), Truthy)

\* C11 - No-card-data error: a well-signed file fails with the no-card-data
\* error exactly when no known-keyword chunk parsed into card data and no
\* fallback candidate parsed into an object with a name; the failure stores
\* no image and makes no record, and is not the not-a-PNG error.
C11_NoCardDataError ==
  (pc \in {"done", "failed"} /\ thrown # "not a PNG") =>
    /\ pc = "failed" <=>
         (Len(CardResults(uint8Array)) = 0 /\ Len(NamedCandidates(uint8Array)) = 0)
    /\ pc = "failed" =>
         /\ thrown = "no character data"
         /\ imageStore = {} /\ characters = <<>> /\ nextId = 1

\* none of the three attempts of decompressZlib inflates data
Uninflatable(data) ==
  /\ ~InflateRaw(data).ok
  /\ ~InflateZlib(data).ok
  /\ ~(Len(data) > 6 /\ InflateRaw(SubSeq(data, 3, Len(data) - 4)).ok)

\* the compressed payload of a chunk: of a zTXt chunk with a keyword
\* separator, and of an iTXt chunk with compression flag 1 whose text starts
\* inside the chunk
CompressedPayload(buffer, c) ==
  LET sep == FindZero(buffer, c.dataStart, c.dataEnd)
      textStart == TextStart(buffer, sep, c.dataEnd)
  IN IF sep = 0 - 1 THEN [has |-> FALSE, bytes |-> <<>>]
     ELSE IF c.type = "zTXt"
     THEN [has |-> TRUE, bytes |-> Slice(buffer, sep + 2, c.dataEnd)]
     ELSE IF /\ c.type = "iTXt"
             /\ textStart # 0 - 1
             /\ textStart < c.dataEnd
             /\ buffer[sep + 2] = 1
     THEN [has |-> TRUE, bytes |-> Slice(buffer, textStart, c.dataEnd)]
     ELSE [has |-> FALSE, bytes |-> <<>>]

FailsToInflate(buffer, c) ==
  CompressedPayload(buffer, c).has /\ Uninflatable(CompressedPayload(buffer, c).bytes)

\* the chunk the scan stands at
ChunkAtOffset == [type |-> ChunkType, dataStart |-> DataStart, dataEnd |-> DataEnd]

\* a scan step over a chunk whose payload does not inflate moves to the next
\* chunk and changes nothing else
SkipsFailedInflate ==
  (pc = "scan" /\ ~ScanOver /\ FailsToInflate(uint8Array, ChunkAtOffset)) =>
    /\ pc' = "scan"
    /\ offset' = DataEnd + 4
    /\ UNCHANGED <<characterData, fallbackChunks, thrown, characters, imageStore>>

\* a file with a chunk that does not inflate and exactly one known-keyword
\* chunk that parses into card data
OneCardBesideFailure(buffer) ==
  /\ \E i \in DOMAIN CompleteChunks(buffer, 8) :
       FailsToInflate(buffer, CompleteChunks(buffer, 8)[i])
  /\ Len(KnownResults(buffer)) = 1
  /\ Truthy(KnownResults(buffer)[1])

\* C12 - Per-chunk decompression failure is non-fatal: a zTXt chunk, or an
\* iTXt chunk with compression flag 1, whose payload cannot be inflated
\* leaves characterData and the fallback candidates as they were and the scan
\* goes on with the next chunk; a file holding such a chunk and one valid
\* card chunk is decoded to that card; and the parse never fails with an
\* error other than the not-a-PNG and no-card-data errors.
C12_InflateFailureNonFatal ==
  /\ [][SkipsFailedInflate]_vars
  /\ [](thrown \in {"", "not a PNG", "no character data"})
  /\ []((pc \in {"done", "failed"} /\ thrown # "not a PNG"
          /\ OneCardBesideFailure(uint8Array))
         => (pc = "done" /\ Returned = Unwrap(KnownResults(uint8Array)[1])))

\* C12 witness: an iTXt chunk with compression flag 1 that does not inflate
\* was followed by a zTXt card chunk, and the parse returned that card.
C12_Witness ==
  /\ pc = "done"
  /\ Len(CompleteChunks(uint8Array, 8)) = 2
  /\ CompleteChunks(uint8Array, 8)[1].type = "iTXt"
  /\ FailsToInflate(uint8Array, CompleteChunks(uint8Array, 8)[1])
  /\ CompleteChunks(uint8Array, 8)[2].type = "zTXt"
  /\ Get(Returned, "name") = Str("Z")

\* The keyword of a text chunk as stored: the bytes of its data before the
\* first NUL
StoredKeyword(buffer, c) ==
  readText(buffer, c.dataStart, FindZero(buffer, c.dataStart, c.dataEnd) - c.dataStart)

CardKeywords == {"chara", "character", "tavern", "sillytavern", "ccv3"}

\* a text chunk whose keyword is, whatever its case, one of the card
\* keywords, or an iTXt chunk with an empty keyword
PrimaryKeyword(buffer, c) ==
  /\ c.type \in {"tEXt", "zTXt", "iTXt"}
  /\ FindZero(buffer, c.dataStart, c.dataEnd) # 0 - 1
  /\ \/ ToLowerCase(StoredKeyword(buffer, c)) \in CardKeywords
     \/ c.type = "iTXt" /\ StoredKeyword(buffer, c) = ""

\* a scan step changes characterData only at a chunk with a primary keyword
PrimaryOnlyByKeyword ==
  (pc = "scan" /\ characterData' # characterData) =>
    PrimaryKeyword(uint8Array, ChunkAtOffset)

\* a scan step at any other chunk leaves characterData alone and at most
\* appends the text of the chunk to the fallback candidates
OthersOnlyCandidates ==
  (pc = "scan" /\ ~ScanOver /\ ~PrimaryKeyword(uint8Array, ChunkAtOffset)) =>
    /\ characterData' = characterData
    /\ fallbackChunks' \in
         {fallbackChunks, Append(fallbackChunks, TextOf(uint8Array, ChunkAtOffset).txt)}

NoPrimaryKeyword(buffer) ==
  \A i \in DOMAIN CompleteChunks(buffer, 8) :
    ~PrimaryKeyword(buffer, CompleteChunks(buffer, 8)[i])

\* C26 - Keyword gating: a text chunk is taken as primary card data only if
\* its keyword, compared without regard to case, is chara, character, tavern,
\* sillytavern or ccv3, or the chunk is iTXt with an empty keyword; a tEXt or
\* zTXt chunk with an empty keyword and a chunk with any other keyword are
\* only fallback candidates, so a file without a primary keyword ends its
\* scan with no primary card data.
C26_KeywordGating ==
  /\ [][PrimaryOnlyByKeyword]_vars
  /\ [][OthersOnlyCandidates]_vars
  /\ []((pc = "fallback" /\ NoPrimaryKeyword(uint8Array)) => characterData = Null)

\* C26 witness: a tEXt chunk with an empty keyword was followed by a tEXt
\* chunk whose keyword is Tavern, with a capital letter; the first became a
\* fallback candidate only and the parse returned the card of the second.
C26_Witness ==
  /\ pc = "done"
  /\ Len(CompleteChunks(uint8Array, 8)) = 2
  /\ CompleteChunks(uint8Array, 8)[1].type = "tEXt"
  /\ StoredKeyword(uint8Array, CompleteChunks(uint8Array, 8)[1]) = ""
  /\ StoredKeyword(uint8Array, CompleteChunks(uint8Array, 8)[2]) = "Tavern"
  /\ Len(fallbackChunks) = 2
  /\ characterData = ParseCardText(fallbackChunks[2]).v
  /\ characterData # ParseCardText(fallbackChunks[1]).v

\* a chunk text that is JSON as stored: it opens an object, so it holds
\* characters outside the base64 alphabet, and it parses
RawJson(txt) == StartsWith(txt, "{") /\ JsonParse(txt).ok

\* a scan step at a primary chunk whose text is raw JSON sets characterData
\* to the parse of that text
PrimaryAsStored ==
  (/\ pc = "scan" /\ ~ScanOver
   /\ PrimaryKeyword(uint8Array, ChunkAtOffset)
   /\ TextOf(uint8Array, ChunkAtOffset).found
   /\ RawJson(TextOf(uint8Array, ChunkAtOffset).txt))
  => characterData' = JsonParse(TextOf(uint8Array, ChunkAtOffset).txt).v

\* the fallback over candidates that are all raw JSON leaves characterData
\* alone or sets it to the parse of one of them
CandidateAsStored ==
  (/\ pc = "fallback"
   /\ \A i \in DOMAIN fallbackChunks : RawJson(fallbackChunks[i]))
  => characterData' \in
       {characterData} \cup
       {JsonParse(fallbackChunks[i]).v : i \in DOMAIN fallbackChunks}

\* C27 - Raw-JSON chunks decode to their stored text: for a chunk, of a known
\* keyword or a fallback candidate, whose text is raw JSON, the decoded
\* object is the JSON parse of the text exactly as stored, so every string
\* value in it is the stored value, whitespace inside strings included.
C27_RawJsonAsStored ==
  /\ [][PrimaryAsStored]_vars
  /\ [][CandidateAsStored]_vars

\* a step of the chunk walk moves the offset forward by the declared length
\* of the chunk it stands at and twelve more bytes
WalkAdvances ==
  (pc = "scan" /\ offset' # offset) =>
    /\ offset' = offset + getUint32(uint8Array, offset) + 12
    /\ offset' > offset
    /\ iterations' = iterations + 1

\* the walk stays in the scan only by moving on to a later chunk
WalkNeverStays == (pc = "scan" /\ pc' = "scan") => offset' > offset

\* C28 - Chunk scan terminates in byte order: for a buffer with a valid
\* signature each iteration of the chunk walk moves the offset forward by the
\* declared length of the chunk plus 12, so chunks are visited at strictly
\* increasing offsets and none twice, and the body of the walk is entered at
\* most (buffer length - 8) / 12 + 1 times.
C28_ScanTerminates ==
  /\ [][WalkAdvances]_vars
  /\ [][WalkNeverStays]_vars
  /\ [](pc # "signature" /\ thrown # "not a PNG" =>
          /\ 12 * iterations <= offset - 8 + 12
          /\ iterations <= (Len(uint8Array) - 8) \div 12 + 1)

\* C28 witness: a walk over two chunks of different lengths entered its body
\* a third time, at bytes that hold no whole chunk, and ended there.
C28_Witness ==
  /\ pc = "fallback"
  /\ iterations = 3
  /\ Len(CompleteChunks(uint8Array, 8)) = 2
  /\ offset = CompleteChunks(uint8Array, 8)[2].dataEnd + 4
  /\ offset < Len(uint8Array)
  /\ getUint32(uint8Array, 8) # getUint32(uint8Array, CompleteChunks(uint8Array, 8)[1].dataEnd + 4)

\* a scan step at a primary chunk whose text parses, base64 first and then
\* as stored, to a value that is no object leaves characterData alone
NonObjectNotTaken ==
  (/\ pc = "scan" /\ ~ScanOver
   /\ PrimaryKeyword(uint8Array, ChunkAtOffset)
   /\ TextOf(uint8Array, ChunkAtOffset).found
   /\ ParseCardText(TextOf(uint8Array, ChunkAtOffset).txt).ok
   /\ ParseCardText(TextOf(uint8Array, ChunkAtOffset).txt).v.t # "obj")
  => characterData' = characterData

\* C29 - Decode yields an object: whenever the parse of a PNG succeeds, the
\* payload handed to buildCharacter is a JSON object; a known-keyword chunk
\* whose text parses to a string, number, boolean, null or array is never
\* taken as card data and never produces a character.
C29_DecodeYieldsObject ==
  /\ [][NonObjectNotTaken]_vars
  /\ [](pc = "done" => characterData.t = "obj")

(***************************************************************************)
(* Properties of createTavernPng                                           *)
(***************************************************************************)
\* The chunks of a PNG file in byte order, each with its CRC inside the file
RECURSIVE WholeChunks(_, _)
WholeChunks(buffer, off) ==
  IF off + 12 > Len(buffer) THEN <<>>
  ELSE LET length == getUint32(buffer, off) IN
       IF off + 12 + length > Len(buffer) THEN <<>>
       ELSE <<[type |-> readText(buffer, off + 4, 4), at |-> off]>>
              \o WholeChunks(buffer, off + 12 + length)

\* offsets of the length prefix of the IEND chunks of a file
IendChunks(buffer) ==
  {WholeChunks(buffer, 8)[i].at : i \in {j \in DOMAIN WholeChunks(buffer, 8) :
                                          WholeChunks(buffer, 8)[j].type = "IEND"}}

\* a step in which createTavernPng ran on the rasterized avatar
Encoding == pc = "encode" /\ thrown' # "image load failed"

\* C13 - Splice correctness: for every rasterized PNG B with an IEND chunk,
\* whatever bytes its chunk payloads hold, the output of createTavernPng is
\* B[0..p) followed by the new chunk followed by B[p..end), p being the offset
\* of the length prefix of B's IEND chunk; its size is size(B) + size(chunk).
C13_SplicedBeforeIend ==
  [][(Encoding /\ IendChunks(uint8Array) # {}) =>
       LET p == CHOOSE q \in IendChunks(uint8Array) : TRUE
           chunk == TavernChunk(characters[1])
       IN /\ pc' = "signature"
          /\ uint8Array' = SubSeq(uint8Array, 1, p) \o chunk
                             \o SubSeq(uint8Array, p + 1, Len(uint8Array))
          /\ Len(uint8Array') = Len(uint8Array) + Len(chunk)]_vars

\* crc32 bit by bit: the byte is folded into the low end of the register,
\* which is then shifted eight times
RECURSIVE BitwiseCrc(_, _, _, _)
BitwiseCrc(buf, first, last, crc) ==
  IF first > last THEN crc
  ELSE IF first = last
  THEN CrcEntry(<<crc[1], crc[2], crc[3], BitXor(crc[4], buf[first])>>, 8)
  ELSE LET mid == (first + last) \div 2
           left == BitwiseCrc(buf, first, mid, crc)
       IN IF left \in Seq(Nat) THEN BitwiseCrc(buf, mid + 1, last, left) ELSE left

\* the layout of a card chunk k made for record r
CardChunkLayout(k, r) ==
  LET n == Len(k)
      textBytes == SubSeq(k, 15, n - 4)
      decoded == atob(BytesToText(textBytes))
      json == BytesToText(decoded.bytes)
  IN /\ n >= 18
     /\ getUint32(k, 0) = 5 + 1 + Len(textBytes)
     /\ n = 4 + 4 + getUint32(k, 0) + 4
     /\ SubSeq(k, 5, 8) = <<116, 69, 88, 116>>
     /\ SubSeq(k, 9, 13) = <<99, 104, 97, 114, 97>>
     /\ k[14] = 0
     /\ Len(textBytes) % 4 = 0
     /\ decoded.ok
     /\ JsonParse(json).ok
     /\ JsonParse(json).v = JsonClone(buildExportData(r))
     /\ json = JsonStringify(JsonParse(json).v)
     /\ SubSeq(k, n - 3, n) =
          Xor32(BitwiseCrc(k, 5, n - 4, <<255, 255, 255, 255>>), <<255, 255, 255, 255>>)

\* C14 - Injected chunk layout: the bytes createTavernPng adds to the
\* rasterized avatar are one chunk: a 4-byte big-endian length equal to
\* 5 + 1 + length(base64 text), the type bytes 'tEXt', the payload 'chara',
\* NUL and the base64 of the compact JSON of the export envelope, and the
\* 4-byte big-endian crc32 (polynomial 0xEDB88320, initial value and final
\* XOR 0xFFFFFFFF) of the type bytes followed by the payload bytes.
C14_ChunkLayout ==
  [][(Encoding /\ pc' = "signature") =>
       \E q \in 0..Len(uint8Array) :
         LET n == Len(uint8Array') - Len(uint8Array) IN
         /\ SubSeq(uint8Array', 1, q) = SubSeq(uint8Array, 1, q)
         /\ SubSeq(uint8Array', q + n + 1, Len(uint8Array'))
              = SubSeq(uint8Array, q + 1, Len(uint8Array))
         /\ CardChunkLayout(SubSeq(uint8Array', q + 1, q + n), characters[1])]_vars

\* C14 witness: the file written holds the card chunk right before its IEND
\* chunk.
C14_Witness ==
  /\ pc = "signature"
  /\ Len(characters) = 1
  /\ LET cs == WholeChunks(uint8Array, 8) IN
     /\ Len(cs) = 4
     /\ cs[3].type = "tEXt"
     /\ cs[4].type = "IEND"
     /\ CardChunkLayout(SubSeq(uint8Array, cs[3].at + 1, cs[4].at), characters[1])

ComparedFields ==
  { "name", "description", "personality", "firstMessage", "alternate_greetings",
    "scenario", "character_book", "tags", "avatarUrl", "qrList", "originalFilename",
    "sourceUrl", "creator_notes", "mes_example", "system_prompt",
    "post_history_instructions", "creator", "character_version", "extensions",
    "rawData", "extra_qr_data", "importFormat" }

\* C16 - PNG export/import round trip: the record read back from the PNG
\* written for an imported, unedited record equals that record in every field
\* but the id and the timestamps, rawData included; and the first import of
\* the worked example keeps exactly its three keys as rawData.
C16_PngRoundTrip ==
  /\ LET r == CardFromPng([name |-> "card.png", content |-> CardGuide], 1) IN
     /\ r.name = Str("Aria") /\ r.description = Str("A guide.")
     /\ r.firstMessage = Str("Hello traveler.")
     /\ r.rawData = CardGuide
  /\ (pc = "done" /\ Len(characters) = 2) =>
       \A f \in ComparedFields : characters[2][f] = characters[1][f]

(***************************************************************************)
(* Properties of buildCharacter on a picked .json file                     *)
(***************************************************************************)
\* the file has been read and its record appended to the list
JsonBuilt == pc = "done" /\ Len(characters) = 1

\* a value the code's tests take as there: not undefined, null, "", 0, false
Present(x) ==
  \/ x.t \in {"obj", "arr"}
  \/ x.t = "str" /\ x.v # ""
  \/ x.t = "num" /\ x.v # 0
  \/ x.t = "bool" /\ x.v

\* the body the unwrap rule names for a parsed root
FieldBody(rawRoot) ==
  IF Has(rawRoot, "spec") /\ rawRoot.v["spec"] = Str("chara_card_v2")
       /\ Present(Get(rawRoot, "data"))
  THEN rawRoot.v["data"]
  ELSE IF ~Present(Get(rawRoot, "name")) /\ Has(rawRoot, "data")
            /\ Present(Get(rawRoot.v["data"], "name"))
  THEN rawRoot.v["data"]
  ELSE rawRoot

\* C17 - Unwrap rule: the record built from a parsed root takes as body
\* root.data when root.spec is 'chara_card_v2' and root.data is present,
\* otherwise root.data when the root has no name but root.data.name exists,
\* otherwise the root itself (present / exists / has no name being the
\* code's tests: a value other than undefined, null, "", 0, false); the
\* record's rawData is exactly that body: same keys, same values, the
\* lorebook entries of rawData without the keysInput the record's entries get.
C17_UnwrapRule ==
  JsonBuilt =>
    LET body == FieldBody(characterData)
        raw == characters[1].rawData IN
    /\ raw = body
    /\ DOMAIN raw.v = DOMAIN body.v
    /\ \A k \in DOMAIN body.v : raw.v[k] = body.v[k]
    /\ characters[1].name = IF Present(Get(body, "name")) THEN Get(body, "name")
                            ELSE Str("Unknown")

\* C17 witness: an unmarked root without a name whose data has one was read,
\* and the record's rawData is the nested object with its unknown key.
C17_Witness ==
  /\ JsonBuilt
  /\ DOMAIN characterData.v = {"data"}
  /\ Get(Get(characterData, "data"), "name") = Str("N")
  /\ characters[1].rawData = Get(characterData, "data")
  /\ Get(characters[1].rawData, "lore") = Str("kept")

\* a value that is present and not empty
NonEmpty(x) == x.t \notin {"undef", "null"} /\ x # Str("")

\* the first present, non-empty value under the keys, in their priority
RECURSIVE FirstNonEmpty(_, _, _)
FirstNonEmpty(d, keys, default) ==
  IF Len(keys) = 0 THEN default
  ELSE IF NonEmpty(Get(d, Head(keys))) THEN Get(d, Head(keys))
  ELSE FirstNonEmpty(d, Tail(keys), default)

\* keys of the body read into text fields of the same name
PlainTextFields ==
  {"description", "personality", "scenario", "mes_example", "system_prompt",
   "post_history_instructions", "creator", "character_version", "sourceUrl"}

\* typed fields of the record that are never left without a value
FilledFields ==
  PlainTextFields \cup {"name", "firstMessage", "creator_notes",
                        "alternate_greetings", "tags", "qrList", "extensions"}

\* C18 - Field mapping defaults: firstMessage is the first present, non-empty
\* value among first_mes, firstMessage, intro, greeting, creator_notes the
\* first among creator_notes, creatorcomment; a typed field whose keys are
\* all absent gets its empty default ("" for texts, [] for alternate
\* greetings, tags and qrList, {} for extensions, 'Unknown' for name); and
\* no typed field but the lorebook and the extra quick-reply data is null or
\* undefined.
C18_FieldDefaults ==
  JsonBuilt =>
    LET r == characters[1]
        d == r.rawData IN
    /\ r.firstMessage =
         FirstNonEmpty(d, <<"first_mes", "firstMessage", "intro", "greeting">>, Str(""))
    /\ r.creator_notes = FirstNonEmpty(d, <<"creator_notes", "creatorcomment">>, Str(""))
    /\ \A f \in PlainTextFields : ~Has(d, f) => r[f] = Str("")
    /\ ~Has(d, "name") => r.name = Str("Unknown")
    /\ (~Has(d, "alternate_greetings") /\ ~Has(d, "alternate_greeting")) =>
         r.alternate_greetings = EmptyArr
    /\ ~Has(d, "tags") => r.tags = EmptyArr
    /\ ~Has(d, "qrList") => r.qrList = EmptyArr
    /\ ~Has(d, "extensions") => r.extensions = EmptyObj
    /\ \A f \in FilledFields : r[f].t \notin {"undef", "null"}

\* C18 witness: a body whose first_mes is empty and whose next alias present
\* is intro, with only the legacy notes key, was read.
C18_Witness ==
  /\ JsonBuilt
  /\ LET d == characters[1].rawData IN
     /\ Get(d, "first_mes") = Str("") /\ ~Has(d, "firstMessage")
     /\ Get(d, "intro") = Str("C") /\ Get(d, "greeting") = Str("D")
     /\ ~Has(d, "creator_notes") /\ Has(d, "creatorcomment")
     /\ ~Has(d, "name")
  /\ characters[1].firstMessage = Str("C")
  /\ characters[1].creator_notes = Str("old note")
  /\ characters[1].name = Str("Unknown")

\* out is src without its empty strings, order kept
KeepsNonEmpty(out, src) ==
  /\ \A j \in DOMAIN out : out[j] # ""
  /\ Len(out) = Cardinality({i \in DOMAIN src : src[i] # ""})
  /\ \E f \in [DOMAIN out -> DOMAIN src] :
       /\ \A j \in DOMAIN out : out[j] = src[f[j]]
       /\ \A j, k \in DOMAIN out : j < k => f[j] < f[k]

\* s cut at its commas
RECURSIVE JoinedBy(_, _)
JoinedBy(pieces, sep) ==
  IF Len(pieces) = 0 THEN ""
  ELSE IF Len(pieces) = 1 THEN pieces[1]
  ELSE pieces[1] \o sep \o JoinedBy(Tail(pieces), sep)

HasComma(s) == \E i \in 1..Len(s) : CharAt(s, i) = ","

IsCommaSplit(pieces, s) ==
  /\ Len(pieces) > 0
  /\ JoinedBy(pieces, ",") = s
  /\ \A i \in DOMAIN pieces : ~HasComma(pieces[i])

\* C19 - Tag normalization: an array of tags gives its elements as strings,
\* trimmed, empties dropped, order kept; a string gives its comma-separated
\* pieces, trimmed, empties dropped, order kept ('brave, noble' gives
\* ['brave','noble']); any other value gives []; the alternate greetings of
\* the record are those of the body, same count, same order.
C19_TagNormalization ==
  JsonBuilt =>
    LET r == characters[1]
        d == r.rawData
        tg == Get(d, "tags")
        out == [j \in DOMAIN r.tags.v |-> r.tags.v[j].v] IN
    /\ r.tags.t = "arr"
    /\ \A j \in DOMAIN r.tags.v : r.tags.v[j].t = "str"
    /\ tg.t = "arr" =>
         KeepsNonEmpty(out, [i \in DOMAIN tg.v |-> Trim(JsString(tg.v[i]))])
    /\ tg.t = "str" =>
         \E pieces \in {SplitComma(tg.v, "")} :
           /\ IsCommaSplit(pieces, tg.v)
           /\ KeepsNonEmpty(out, [i \in DOMAIN pieces |-> Trim(pieces[i])])
    /\ tg = Str("brave, noble") => out = <<"brave", "noble">>
    /\ tg.t \notin {"arr", "str"} => out = <<>>
    /\ Get(d, "alternate_greetings").t = "arr" =>
         r.alternate_greetings = Get(d, "alternate_greetings")
    /\ (~Has(d, "alternate_greetings") /\ Get(d, "alternate_greeting").t = "arr") =>
         r.alternate_greetings = Get(d, "alternate_greeting")

\* C19 witness: a body with tags 'brave, noble' and two alternate greetings
\* was read into a record with the two tags and the two greetings in order.
C19_Witness ==
  /\ JsonBuilt
  /\ Get(characters[1].rawData, "tags") = Str("brave, noble")
  /\ characters[1].tags = Arr(<<Str("brave"), Str("noble")>>)
  /\ characters[1].alternate_greetings = Arr(<<Str("Hi"), Str("Yo")>>)

(***************************************************************************)
(* Properties of the lorebook across import, editing and export            *)
(***************************************************************************)
\* entries of a book, none when it has no entries array
EntriesOf(book) ==
  IF Get(book, "entries").t = "arr" THEN Get(book, "entries").v ELSE <<>>

\* a step of the list that appends a record read from a file
ImportsRecord == view = "list" /\ Len(characters') = Len(characters) + 1

\* the record read has, entry by entry, the source entry plus keysInput
ImportedBookKeepsEntries ==
  ImportsRecord =>
    LET r == characters'[Len(characters')]
        src == Get(r.rawData, "character_book")
        es == EntriesOf(r.character_book) IN
    Len(EntriesOf(src)) > 0 =>
      /\ Len(es) = Len(EntriesOf(src))
      /\ \A k \in DOMAIN src.v \ {"entries"} : Get(r.character_book, k) = src.v[k]
      /\ \A i \in DOMAIN es :
           LET e == EntriesOf(src)[i]
               keys == Get(e, "keys").v IN
           /\ DOMAIN es[i].v = DOMAIN e.v \cup {"keysInput"}
           /\ \A k \in DOMAIN e.v \ {"keysInput"} : es[i].v[k] = e.v[k]
           /\ es[i].v["keysInput"] = Str(JoinedBy([j \in DOMAIN keys |-> keys[j].v], ", "))

\* the book written for a record has its entries, helper key taken off
ExportedBookKeepsEntries(c) ==
  Truthy(c.character_book) =>
    LET es == EntriesOf(c.character_book)
        os == EntriesOf(Get(ExportBody(c), "character_book")) IN
    /\ Get(Get(ExportBody(c), "character_book"), "entries").t = "arr"
    /\ Len(os) = Len(es)
    /\ \A i \in DOMAIN es :
         /\ DOMAIN os[i].v = DOMAIN es[i].v \ {"keysInput"}
         /\ \A k \in DOMAIN os[i].v : os[i].v[k] = es[i].v[k]

\* C20 - Lorebook helper and order: a record read from a file has each
\* source entry in place with a keysInput equal to its keys joined by ', '
\* and no other key changed; the character_book.entries written for a record
\* (of the list, or as it stands in the form) has as many entries, in the
\* same order, each without keysInput and with every other key unchanged,
\* whatever entries were added, updated or deleted in the editor.
C20_LorebookOrder ==
  /\ [][ImportedBookKeepsEntries]_vars
  /\ [](/\ \A i \in DOMAIN characters : ExportedBookKeepsEntries(characters[i])
        /\ view = "edit" => ExportedBookKeepsEntries(FormCharacter))

\* C20 witness: a record of the list was saved with lorebook entries that
\* differ from those of the file it was read from (an entry was added,
\* updated or deleted), and its entries carry the helper key.
C20_Witness ==
  \E i \in DOMAIN characters :
    LET c == characters[i]
        src == EntriesOf(Get(c.rawData, "character_book"))
        es == EntriesOf(c.character_book) IN
    /\ view = "list"
    /\ Len(src) = 2 /\ Len(es) > 0
    /\ \A j \in DOMAIN es : Has(es[j], "keysInput")
    /\ EntriesOf(Get(ExportBody(c), "character_book")) # src

(***************************************************************************)
(* Properties of parseCharacterJson on the text of a file                  *)
(***************************************************************************)
\* the text of the picked file
PickedText == BytesToText(uint8Array)

\* C21 - JSON import acceptance: a file whose text is valid JSON, whatever
\* its top-level value, is never failed and ends as a record, named
\* 'Unknown' when neither the top level nor data holds a usable name; a file
\* fails only when its text is not valid JSON, and then with the
\* invalid-JSON error.
C21_JsonAcceptance ==
  /\ pc = "failed" => PickedText \in InvalidJsonTexts /\ thrown = "Invalid JSON file"
  /\ (pc \in {"json", "done"}) => PickedText \in ValidJsonTexts
  /\ (pc = "done" /\ ~Truthy(Get(characterData, "name"))
        /\ ~Truthy(Get(Get(characterData, "data"), "name"))) =>
       characters[1].name = Str("Unknown")

(***************************************************************************)
(* Properties of parseQrFile                                               *)
(***************************************************************************)
IsArray(x) == x.t = "arr"

\* what the form holds after binding a file that parsed to data
BoundAs(data) ==
  IF IsArray(Get(data, "qrList"))
  THEN formData.qrList = data.v["qrList"] /\ formData.extra_qr_data = data
  ELSE IF IsArray(Get(data, "quickReplySlots"))
  THEN formData.qrList = data.v["quickReplySlots"] /\ formData.extra_qr_data = data
  ELSE /\ IsArray(data)
       /\ formData.qrList = data
       /\ formData.extra_qr_data = Obj([qrList |-> data])

\* no list anywhere the rule looks
NoListIn(data) ==
  ~IsArray(Get(data, "qrList")) /\ ~IsArray(Get(data, "quickReplySlots")) /\ ~IsArray(data)

\* C22 - Quick-reply file recognition: the list bound is the array under
\* qrList when there is one, otherwise the array under quickReplySlots,
\* otherwise the top-level array itself with raw = {qrList: that array}; for
\* the two object shapes raw is the parsed object unchanged; any other
\* file (no recognized array, a non-array under the key, invalid JSON) is
\* rejected with an error and leaves the form without a list.
C22_QrRecognition ==
  \A text \in {PickedText} :
    \A data \in {JsonParse(text)} :
      /\ pc = "done" => data.ok /\ BoundAs(data.v) /\ thrown = ""
      /\ pc = "failed" =>
           /\ thrown # ""
           /\ formData = characters[1]
           /\ IF data.ok THEN NoListIn(data.v) ELSE text \in InvalidJsonTexts
      /\ pc = "done" => formData.qrList.t = "arr"

\* C22 witness: a file holding a list under both keys was bound, and the
\* form holds the list of qrList with the whole object as raw.
C22_Witness ==
  /\ pc = "done"
  /\ formData.qrList = Arr(<<QrGreet>>)
  /\ Get(formData.extra_qr_data, "quickReplySlots") = Arr(<<QrWave>>)
  /\ Get(formData.extra_qr_data, "qrList") = Arr(<<QrGreet>>)
  /\ Get(formData.extra_qr_data, "color") = Str("red")

(***************************************************************************)
(* Properties of the quick-reply exports                                   *)
(***************************************************************************)
\* the quick-reply objects written by a step
QrWritten ==
  UNION { {d.files[p].body : p \in {q \in DOMAIN d.files : d.files[q].kind = "qr"}} :
          d \in downloads' \ downloads }

\* keys of the scaffolds that the retained object may override
ScaffoldKeys ==
  {"version", "name", "disableSend", "placeBeforeInput", "injectInput", "color",
   "onlyBorderColor"}

\* the object written carries the list of the form and the retained keys
CarriesCurrentList ==
  \A body \in QrWritten :
    /\ Get(body, "qrList") = FormCharacter.qrList
    /\ \A k \in DOMAIN Spread(formData.extra_qr_data) \ {"qrList"} :
         Get(body, k) = JsonClone(formData.extra_qr_data.v[k])
    /\ DOMAIN body.v \subseteq
         ScaffoldKeys \cup {"qrList"} \cup DOMAIN Spread(formData.extra_qr_data)

\* C23 - Quick-reply export carries the current list: every quick-reply
\* object written by an export from the form (the standalone file and the
\* file of the package) has under qrList the current action list, whatever
\* qrList the retained raw object holds, and under every other key of the
\* retained raw object its value.
C23_QrExportCurrentList == [][CarriesCurrentList]_vars

(***************************************************************************)
(* Properties of the batch import                                          *)
(***************************************************************************)
\* the name says card file: it ends in .png or .json, case apart
NamedAsCard(file) ==
  \E ext \in {".png", ".PNG", ".json", ".JSON"} :
    Len(file.name) >= Len(ext)
      /\ SubSeq(file.name, Len(file.name) - Len(ext) + 1, Len(file.name)) = ext

\* the file holds a card that can be built
HoldsCard(file) ==
  /\ file.content.t \notin {"undef", "null"}
  /\ \A i \in DOMAIN EntriesOf(Get(Unwrap(file.content), "character_book")) :
       EntriesOf(Get(Unwrap(file.content), "character_book"))[i].t = "obj"

\* positions of the first n files that are card files, good ones, bad ones
CardFilesUpTo(n) == {i \in 1..n : NamedAsCard(fileArray[i])}
GoodUpTo(n) == {i \in CardFilesUpTo(n) : HoldsCard(fileArray[i])}
BadUpTo(n) == CardFilesUpTo(n) \ GoodUpTo(n)

\* the counters and the list account for the first n files
AccountsFor(n) ==
  /\ successCount = Cardinality(GoodUpTo(n))
  /\ failCount = Cardinality(BadUpTo(n))
  /\ successCount + failCount = Cardinality(CardFilesUpTo(n))
  /\ Len(characters) = successCount
  /\ Len(failedFiles) = failCount
  /\ \A i \in GoodUpTo(n) :
       characters[Cardinality(GoodUpTo(i))].originalFilename = Str(fileArray[i].name)
  /\ \A i \in BadUpTo(n) :
       LET msg == failedFiles[Cardinality(BadUpTo(i))] IN
       SubSeq(msg, 1, Len(fileArray[i].name)) = fileArray[i].name

\* one file per step, in list order
OneFileAtATime ==
  (pc = "batch" /\ pc' = "batch") =>
    /\ fileIndex' = fileIndex + 1
    /\ fileArray' = fileArray
    /\ Len(characters') + Len(failedFiles') <= Len(characters) + Len(failedFiles) + 1

\* C24 - Batch import isolation: the files are processed one at a time in
\* list order; a failed file never keeps the later files from being
\* processed; when the batch ends every file was visited, success count +
\* failure count is the number of files named .png or .json, onImport was
\* called once per success and never for a failed file, one message was
\* kept per failure, and importingCount is 0.
C24_BatchIsolation ==
  /\ [][OneFileAtATime]_vars
  /\ [](pc = "batch" => AccountsFor(fileIndex - 1) /\ importingCount = Len(fileArray))
  /\ [](pc = "batchdone" =>
          /\ fileIndex = Len(fileArray) + 1
          /\ AccountsFor(Len(fileArray))
          /\ importingCount = 0)

\* C24 witness: a batch of three ended in which the first file failed and
\* the last one, a good card, was imported.
C24_Witness ==
  /\ pc = "batchdone"
  /\ Len(fileArray) = 3
  /\ ~HoldsCard(fileArray[1]) /\ NamedAsCard(fileArray[1])
  /\ HoldsCard(fileArray[3]) /\ NamedAsCard(fileArray[3])
  /\ failCount >= 1
  /\ characters[Len(characters)].originalFilename = Str(fileArray[3].name)

(***************************************************************************)
(* Properties of the bulk export                                           *)
(***************************************************************************)
\* the selected records, in list order
SelectedChars(sel) ==
  LET Picked(i) == i \in sel
      idx == SelectSeq([i \in DOMAIN characters |-> i], Picked)
  IN [k \in DOMAIN idx |-> characters[idx[k]]]

\* paths of the card entries of an archive
CardPaths(files) == {p \in DOMAIN files : files[p].kind = "card"}

\* every record has a card entry of its own, PNG or JSON as it should be
EachHasOwnEntry(chars, pngOk, files) ==
  \E own \in [DOMAIN chars -> CardPaths(files)] :
    /\ \A j, k \in DOMAIN chars : j # k => own[j] # own[k]
    /\ \A k \in DOMAIN chars :
         /\ files[own[k]].body = ExportFile(chars[k])
         /\ EndsWith(own[k], ".png") =
              (chars[k].importFormat # Str("json") /\ pngOk[k])
         /\ EndsWith(own[k], ".json") =
              (chars[k].importFormat = Str("json") \/ ~pngOk[k])

\* C25 - Bulk export never omits a character: for every selection of the
\* records of the list and every outcome of the PNG encodings, the archive
\* exportBulkCharacters builds holds a distinct card entry for each selected
\* record, a PNG when its encoding succeeds and a JSON file when the record
\* came from JSON or the encoding failed.
C25_BulkNeverOmits ==
  \A sel \in SUBSET (DOMAIN characters) \ {{}} :
    LET chars == SelectedChars(sel) IN
    \A pngOk \in [DOMAIN chars -> BOOLEAN] :
      EachHasOwnEntry(chars, pngOk, exportBulkCharacters(chars, collections, pngOk).files)

====
